---- MODULE Spec2Model ----
(***************************************************************************)
(* PRF Honda motor inspector: the engine-number parser                     *)
(* (HondaMotorSpecs.validate_engine_format), the forensic risk score       *)
(* (ForensicAIService) and the engraving-type analysis (AnomalyService).   *)
(*                                                                         *)
(* Strings are sequences of one-character strings.  Python's None is the   *)
(* value None below.  Confidences of the parser are counted in units of    *)
(* 1/10000, confidences of the engraving classifier in percent.            *)
(***************************************************************************)
EXTENDS Integers, Sequences, FiniteSets, TLC

VARIABLES
    engine_number,   \* argument of validate_engine_format
    v_called,        \* validate_engine_format has returned
    vresult,         \* the dict validate_engine_format returns
    f_enabled,       \* ForensicAIService.enabled: an API key is configured
    f_year,          \* the year given to ForensicAIService.analyze
    ai,              \* the parsed answer of the model
    f_path,          \* the path the last call of analyze took
    f_result,        \* the result dict of the last call
    f_steps,         \* findings added to the answer since the first call
    a_image,         \* the image given to AnomalyService.analyze, as OpenCV measures it
    a_metrics,       \* ocr_metrics: one dict per glyph
    a_expected,      \* expected_type
    a_use_claude,    \* AnomalyService.use_claude: an API key is configured
    a_font_alerts,   \* alerts the font analyzer returns for char_images
    a_path,          \* the path the call of AnomalyService.analyze took
    a_result,        \* the dict AnomalyService.analyze returns
    a_calls,         \* the classifiers AnomalyService.analyze called, in order
    y_year,          \* the year posted to the API
    y_now,           \* datetime.now().year
    y_status,        \* what validate_year did with it, and whether the types were asked
    y_types,         \* the expected type by each of the three implementations
    o_text,          \* the text the OCR read
    o_mid,           \* the text after _reorganize_honda_format
    o_out,           \* the text after _apply_honda_corrections
    o_history,       \* the corrected texts, one per pass of the normalizer
    o_stage,         \* the step of the normalizer done last
    r_now,           \* time.time()
    r_requests,      \* RateLimitMiddleware.requests: the kept timestamps of each IP
    r_admitted,      \* the timestamps of the requests of each IP given to call_next
    r_inflight,      \* the requests of each IP waiting in call_next
    r_last,          \* the request that moved last and the status it got (0: none yet)
    g_char,          \* the character the glyph is claimed to be
    g_holes,         \* the inner contours of the glyph
    g_aspect,        \* the aspect ratio of the glyph
    g_done,          \* analyze_character has returned
    g_result,        \* the dict analyze_character returns
    p_text,          \* the combined text of the OCR passes
    p_force,         \* force_claude
    p_use_claude,    \* OCREngine.use_claude: a key is configured
    p_path,          \* the path the call of process_image took
    p_response,      \* the outcome of the HTTP call of the fallback
    p_code,          \* the code process_image returns
    p_steps,         \* the steps process_image ran, in order
    d_supabase,      \* ForensicAIService.supabase is set
    d_history,       \* the rows of analysis_history, by id
    d_originals,     \* motors_original: the analysis id each row came from
    d_last,          \* the last call of evaluate_analysis or promote_to_reference
    c_ocr,           \* the text of the local OCR
    c_enabled,       \* AIVisionService.enabled
    c_stage,         \* how analyze_motor_image ended, then "compared"
    c_ai,            \* the dict analyze_motor_image returns
    c_compared       \* the dict compare_readings returns

format_vars == <<engine_number, v_called, vresult>>
forensic_vars == <<f_enabled, f_year, ai, f_path, f_result, f_steps>>
anomaly_vars ==
    <<a_image, a_metrics, a_expected, a_use_claude, a_font_alerts, a_path, a_result,
      a_calls>>
year_vars == <<y_year, y_now, y_status, y_types>>
ocr_vars == <<o_text, o_mid, o_out, o_history, o_stage>>
rate_vars == <<r_now, r_requests, r_admitted, r_inflight, r_last>>
font_vars == <<g_char, g_holes, g_aspect, g_done, g_result>>
process_vars == <<p_text, p_force, p_use_claude, p_path, p_response, p_code, p_steps>>
reference_vars == <<d_supabase, d_history, d_originals, d_last>>
vision_vars == <<c_ocr, c_enabled, c_stage, c_ai, c_compared>>
vars ==
    <<format_vars, forensic_vars, anomaly_vars, year_vars, ocr_vars, rate_vars, font_vars,
      process_vars, reference_vars, vision_vars>>

None == <<"None">>

Min(S) == CHOOSE x \in S : \A y \in S : x <= y
Max(S) == CHOOSE x \in S : \A y \in S : x >= y

(***************************************************************************)
(* Characters and the str methods the parser uses.                         *)
(***************************************************************************)
UpperCase == <<"A","B","C","D","E","F","G","H","I","J","K","L","M","N","O","P","Q","R","S","T","U","V","W","X","Y","Z">>
LowerCase == <<"a","b","c","d","e","f","g","h","i","j","k","l","m","n","o","p","q","r","s","t","u","v","w","x","y","z">>
DigitChars == <<"0","1","2","3","4","5","6","7","8","9">>

Letters == {UpperCase[i] : i \in 1..Len(UpperCase)}
LowerLetters == {LowerCase[i] : i \in 1..Len(LowerCase)}
Digits == {DigitChars[i] : i \in 1..Len(DigitChars)}
Whitespace == {" ", "\t", "\n", "\r"}

\* ord() of the characters the catalog is written in: digits sort before letters
Ord(c) ==
    IF c \in Digits THEN CHOOSE i \in 1..Len(DigitChars) : DigitChars[i] = c
    ELSE IF c \in Letters THEN 10 + (CHOOSE i \in 1..Len(UpperCase) : UpperCase[i] = c)
    ELSE 0

\* str.upper()
UpperChar(c) ==
    IF c \in LowerLetters
    THEN UpperCase[CHOOSE i \in 1..Len(LowerCase) : LowerCase[i] = c]
    ELSE c

Upper(s) == [i \in 1..Len(s) |-> UpperChar(s[i])]

\* str.lower(), used to build lower-case inputs
LowerChar(c) ==
    IF c \in Letters
    THEN LowerCase[CHOOSE i \in 1..Len(UpperCase) : UpperCase[i] = c]
    ELSE c

Lower(s) == [i \in 1..Len(s) |-> LowerChar(s[i])]

\* str.strip(): leading and trailing whitespace removed
Strip(s) ==
    LET keep == {i \in 1..Len(s) : s[i] \notin Whitespace}
    IN  IF keep = {} THEN <<>> ELSE SubSeq(s, Min(keep), Max(keep))

\* str.replace(ch, '')
Remove(s, ch) == SelectSeq(s, LAMBDA c : c # ch)

\* str.startswith(p)
StartsWith(s, p) == Len(p) <= Len(s) /\ SubSeq(s, 1, Len(p)) = p

\* ''.join(c for c in serial if c.isdigit())
DigitsOf(s) == SelectSeq(s, LAMBDA c : c \in Digits)

(***************************************************************************)
(* HondaMotorSpecs.ENGINE_PREFIXES: prefix -> (model, displacement).       *)
(* The dict literal names JC75E twice; the later value is the one kept.    *)
(***************************************************************************)
ENGINE_PREFIXES ==
    (<<"M","C","2","7","E">> :> <<"CG 160 Titan/Fan/Start", 160>>) @@
    (<<"M","C","4","1","E">> :> <<"CG 150 Titan/Fan", 150>>) @@
    (<<"M","C","3","8","E">> :> <<"CG 125 Fan", 125>>) @@
    (<<"M","C","4","4","E">> :> <<"CG 150", 150>>) @@
    (<<"M","C","4","4","E","1">> :> <<"CG 150", 150>>) @@
    (<<"J","C","3","0","E">> :> <<"CG 125i Fan", 125>>) @@
    (<<"J","C","3","0","E","7">> :> <<"CG 125i Fan", 125>>) @@
    (<<"J","C","7","5","E">> :> <<"POP 110i", 110>>) @@
    (<<"J","C","7","9","E">> :> <<"CG 160 Fan", 160>>) @@
    (<<"J","C","9","6","E">> :> <<"CG 160", 160>>) @@
    (<<"J","C","9","R","E">> :> <<"CG 160", 160>>) @@
    (<<"M","D","0","9","E">> :> <<"XRE 300", 300>>) @@
    (<<"M","D","0","9","E","1">> :> <<"XRE 300", 300>>) @@
    (<<"N","D","0","9","E","1">> :> <<"XRE 300", 300>>) @@
    (<<"N","D","1","1","E","1">> :> <<"XRE 300", 300>>) @@
    (<<"M","D","4","4","E">> :> <<"XRE 190", 190>>) @@
    (<<"N","C","5","1","E">> :> <<"CB 500F/X/R", 500>>) @@
    (<<"N","C","4","9","E">> :> <<"CB 500", 500>>) @@
    (<<"N","C","4","9","E","1">> :> <<"CB 500", 500>>) @@
    (<<"N","C","4","9","E","1","F">> :> <<"CB 500F", 500>>) @@
    (<<"N","C","5","6","E">> :> <<"CB 650F", 650>>) @@
    (<<"N","C","6","1","E">> :> <<"CB 650", 650>>) @@
    (<<"N","C","6","1","E","0">> :> <<"CB 650R", 650>>) @@
    (<<"M","C","5","2","E">> :> <<"CB 300R Twister", 300>>) @@
    (<<"M","C","6","5","E">> :> <<"CB 250F Twister", 250>>) @@
    (<<"M","D","3","7","E">> :> <<"NXR 160 Bros", 160>>) @@
    (<<"M","D","3","8","E">> :> <<"XRE 190 Bros", 190>>) @@
    (<<"M","D","4","1","E">> :> <<"NXR 160 Bros", 160>>) @@
    (<<"M","D","4","1","E","0">> :> <<"NXR 160 Bros", 160>>) @@
    (<<"K","Y","J">> :> <<"BIZ 125", 125>>) @@
    (<<"J","F","7","7","E">> :> <<"BIZ 110i", 110>>) @@
    (<<"J","F","8","3","E">> :> <<"BIZ 125", 125>>) @@
    (<<"P","C","4","0","E">> :> <<"PCX 150", 150>>) @@
    (<<"P","C","4","4","E">> :> <<"PCX 160", 160>>) @@
    (<<"J","F","8","1","E">> :> <<"Elite 125", 125>>) @@
    (<<"J","K","1","2","E">> :> <<"ADV 150", 150>>) @@
    (<<"N","C","7","0","E">> :> <<"Africa Twin CRF1000", 1000>>) @@
    (<<"N","C","7","5","E">> :> <<"Africa Twin CRF1100", 1100>>) @@
    (<<"K","C","0","8","E","1">> :> <<"CG 125", 125>>) @@
    (<<"K","C","0","8","E","2">> :> <<"CG 125", 125>>) @@
    (<<"K","C","2","2","E","1">> :> <<"CG 125", 125>>) @@
    (<<"K","D","0","3","E","3">> :> <<"Motor Genérico", 0>>) @@
    (<<"K","D","0","8","E","1">> :> <<"Sahara/XLR 125", 125>>) @@
    (<<"K","D","0","8","E","2">> :> <<"Sahara/XLR 125", 125>>) @@
    (<<"K","F","3","4","E","1">> :> <<"Titan 150", 150>>)

\* key=lambda x: (-len(x), x) of the sort in validate_engine_format
LexLess(a, b) ==
    \E i \in 1..Min({Len(a), Len(b)}) :
        /\ \A j \in 1..(i - 1) : a[j] = b[j]
        /\ Ord(a[i]) < Ord(b[i])

SortKeyLess(a, b) ==
    \/ Len(a) > Len(b)
    \/ Len(a) = Len(b) /\ LexLess(a, b)

RECURSIVE SortedBy(_)
SortedBy(S) ==
    IF S = {} THEN <<>>
    ELSE LET m == CHOOSE x \in S : \A y \in S \ {x} : SortKeyLess(x, y)
         IN  <<m>> \o SortedBy(S \ {m})

sorted_prefixes == SortedBy(DOMAIN ENGINE_PREFIXES)

(***************************************************************************)
(* The two regular expressions, compiled with re.IGNORECASE.  A match is   *)
(* the first one the backtracking matcher finds: every quantifier is       *)
(* greedy, so among the ways to split the text it is the one whose counts  *)
(* are largest, compared left to right.                                    *)
(***************************************************************************)
ReLetter == Letters \cup LowerLetters
ReAlnum == ReLetter \cup Digits

AllIn(s, first, count, class) == \A i \in first..(first + count - 1) : s[i] \in class

NoMatch == [ok |-> FALSE, g1 |-> <<>>, g2 |-> <<>>]

\* ^([A-Z]{2,4}\d{0,2}[A-Z]?\d?[A-Z]?)-?([A-Z]?\d{5,8})$
PatternSplits(s) ==
    {t \in (2..4) \X (0..2) \X (0..1) \X (0..1) \X (0..1) \X (0..1) \X (0..1) :
        LET g == Len(s) - (t[1] + t[2] + t[3] + t[4] + t[5] + t[6] + t[7])
            p2 == 1 + t[1]
            p3 == p2 + t[2]
            p4 == p3 + t[3]
            p5 == p4 + t[4]
            p6 == p5 + t[5]
            p7 == p6 + t[6]
            p8 == p7 + t[7]
        IN  /\ g \in 5..8
            /\ AllIn(s, 1, t[1], ReLetter)
            /\ AllIn(s, p2, t[2], Digits)
            /\ AllIn(s, p3, t[3], ReLetter)
            /\ AllIn(s, p4, t[4], Digits)
            /\ AllIn(s, p5, t[5], ReLetter)
            /\ AllIn(s, p6, t[6], {"-"})
            /\ AllIn(s, p7, t[7], ReLetter)
            /\ AllIn(s, p8, g, Digits)}

PatternRank(t) == (((((t[1] * 3 + t[2]) * 2 + t[3]) * 2 + t[4]) * 2 + t[5]) * 2 + t[6]) * 2 + t[7]

\* the primary expression without the optional digit \d? of its prefix group
ENGINE_NUMBER_PATTERN_no_optional_digit(s) ==
    LET M == {x \in PatternSplits(s) : x[4] = 0}
    IN  IF M = {} THEN NoMatch
        ELSE LET t == CHOOSE x \in M : \A y \in M : PatternRank(y) <= PatternRank(x)
                 n1 == t[1] + t[2] + t[3] + t[4] + t[5]
             IN  [ok |-> TRUE,
                  g1 |-> SubSeq(s, 1, n1),
                  g2 |-> SubSeq(s, n1 + t[6] + 1, Len(s))]

ENGINE_NUMBER_PATTERN(s) ==
    LET M == PatternSplits(s)
    IN  IF M = {} THEN NoMatch
        ELSE LET t == CHOOSE x \in M : \A y \in M : PatternRank(y) <= PatternRank(x)
                 n1 == t[1] + t[2] + t[3] + t[4] + t[5]
             IN  [ok |-> TRUE,
                  g1 |-> SubSeq(s, 1, n1),
                  g2 |-> SubSeq(s, n1 + t[6] + 1, Len(s))]

\* ^([A-Z]{2}[A-Z0-9]{2,5})-?([A-Z0-9]{5,8})$
AltSplits(s) ==
    {t \in (2..5) \X (0..1) :
        LET g == Len(s) - (2 + t[1] + t[2])
        IN  /\ g \in 5..8
            /\ AllIn(s, 1, 2, ReLetter)
            /\ AllIn(s, 3, t[1], ReAlnum)
            /\ AllIn(s, 3 + t[1], t[2], {"-"})
            /\ AllIn(s, 3 + t[1] + t[2], g, ReAlnum)}

ENGINE_NUMBER_PATTERN_ALT(s) ==
    LET M == AltSplits(s)
    IN  IF M = {} THEN NoMatch
        ELSE LET t == CHOOSE x \in M : \A y \in M : y[1] * 2 + y[2] <= x[1] * 2 + x[2]
             IN  [ok |-> TRUE,
                  g1 |-> SubSeq(s, 1, 2 + t[1]),
                  g2 |-> SubSeq(s, 2 + t[1] + t[2] + 1, Len(s))]

(***************************************************************************)
(* HondaMotorSpecs.validate_engine_format                                  *)
(***************************************************************************)
MIN_LEN == 8
MAX_LEN == 16
MIN_SERIAL_DIGITS == 5
MAX_SERIAL_DIGITS == 8
CONF_CATALOG == 9500
CONF_REGEX == 7000

\* result = {...} at the top of the function
EmptyResult(original) ==
    [valid |-> FALSE, original |-> original, cleaned |-> <<>>, prefix |-> None,
     serial |-> None, model_info |-> None, issues |-> <<>>, confidence |-> 0]

\* engine_number.strip().upper().replace(' ', '')
clean_number(text) == Remove(Upper(Strip(text)), " ")

\* the text analysed with its hyphens left in
clean_for_analysis_keeps_hyphen(text) == clean_number(text)

\* clean_number.replace('-', '')
clean_for_analysis(text) == Remove(clean_number(text), "-")

\* the loop over the catalog in an order that tries short prefixes first
matched_prefix_shortest_first(clean) ==
    LET hits == {i \in 1..Len(sorted_prefixes) : StartsWith(clean, sorted_prefixes[i])}
    IN  IF hits = {} THEN None ELSE sorted_prefixes[Max(hits)]

\* for prefix in sorted_prefixes: if clean_for_analysis.startswith(prefix): ... break
matched_prefix(clean) ==
    LET hits == {i \in 1..Len(sorted_prefixes) : StartsWith(clean, sorted_prefixes[i])}
    IN  IF hits = {} THEN None ELSE sorted_prefixes[Min(hits)]

\* the slice taken one character too far
serial_after_off_by_one(clean, prefix) == SubSeq(clean, Len(prefix) + 2, Len(clean))

\* clean_for_analysis[len(matched_prefix):]
serial_after(clean, prefix) == SubSeq(clean, Len(prefix) + 1, Len(clean))

\* the catalog branch, else the two regular expressions
MatchStep(r, text) ==
    LET clean == clean_for_analysis(text)
        mp == matched_prefix(clean)
        m1 == ENGINE_NUMBER_PATTERN(clean)
        m == IF m1.ok THEN m1 ELSE ENGINE_NUMBER_PATTERN_ALT(clean)
    IN  IF mp # None /\ mp # <<>>
        THEN [r EXCEPT !.prefix = mp,
                       !.serial = serial_after(clean, mp),
                       !.model_info = ENGINE_PREFIXES[mp],
                       !.valid = TRUE,
                       !.confidence = CONF_CATALOG]
        ELSE IF m.ok
        THEN [r EXCEPT !.prefix = Upper(m.g1),
                       !.serial = Upper(m.g2),
                       !.valid = TRUE,
                       !.confidence = CONF_REGEX,
                       !.issues = Append(@, "prefix_not_catalogued")]
        ELSE [r EXCEPT !.issues = Append(@, "format_not_recognised"),
                       !.confidence = 0]

\* the short-serial check without its valid = False
SerialShort_keeps_valid(r) ==
    IF Len(DigitsOf(r.serial)) < MIN_SERIAL_DIGITS
    THEN [r EXCEPT !.issues = Append(@, "serial_too_short"),
                   !.confidence = (@ * 5) \div 10]
    ELSE r

\* "Validacoes adicionais do serial": the three checks, in order
SerialShort(r) ==
    IF Len(DigitsOf(r.serial)) < MIN_SERIAL_DIGITS
    THEN [r EXCEPT !.issues = Append(@, "serial_too_short"),
                   !.valid = FALSE,
                   !.confidence = (@ * 5) \div 10]
    ELSE r

SerialLong(r) ==
    IF Len(DigitsOf(r.serial)) > MAX_SERIAL_DIGITS
    THEN [r EXCEPT !.issues = Append(@, "serial_too_long"),
                   !.confidence = (@ * 8) \div 10]
    ELSE r

SerialChars(r) ==
    IF \E i \in 1..Len(r.serial) : r.serial[i] \notin (Letters \cup Digits)
    THEN [r EXCEPT !.issues = Append(@, "serial_invalid_chars"),
                   !.confidence = (@ * 7) \div 10]
    ELSE r

SerialChecks(r) ==
    IF r.serial # None /\ r.serial # <<>>
    THEN SerialChars(SerialLong(SerialShort(r)))
    ELSE r

validate_engine_format(input) ==
    LET r0 == EmptyResult(input)
    IN  IF input = None \/ input = <<>>
        THEN [r0 EXCEPT !.issues = Append(@, "empty_or_invalid")]
        ELSE LET r1 == [r0 EXCEPT !.cleaned = clean_number(input)]
                 n == Len(clean_for_analysis(input))
             IN  IF n < MIN_LEN
                 THEN [r1 EXCEPT !.issues = Append(@, "too_short")]
                 ELSE IF n > MAX_LEN
                 THEN [r1 EXCEPT !.issues = Append(@, "too_long")]
                 ELSE SerialChecks(MatchStep(r1, input))

(***************************************************************************)
(* Inputs of the parser: a head (every catalog prefix, and heads that are  *)
(* not in the catalog) followed by a tail, as written, in lower case, and  *)
(* with one hyphen or one space at any place; and the non-string input.    *)
(***************************************************************************)
Tails ==
    {<<"1","2","3","4","5">>,
     <<"9","9","9","9","9","9">>,
     <<"B","2","1","5","7","9","7">>,
     <<"7","0","0","8","4","2","7">>,
     <<"S","0","2","9","4","6","6">>,
     <<"1","2","3","4">>,
     <<"1","2","3","4","5","6","7","8","9">>,
     <<"1","2","3","4","5","6","7","8">>,
     <<"1","2","#","4","5","6">>,
     <<"A","B","C","D","E">>,
     <<"1","2","3">>,
     <<"A","1","2","3","4">>,
     <<"1","2","3","4","5","6","7","8","9","0","1","2","3">>,
     <<"X","1","2","3","4","5","6","7","8">>,
     <<"1","2">>,
     <<"1","2","#","4">>,
     <<"1","2","3","4","5","6","7","8","9","#">>}

UnknownHeads ==
    {<<"Z","Z","0","0","X">>,
     <<"A","B","1","2","C">>,
     <<"X","Y","1">>,
     <<"A","B","C","D","E","F","G">>,
     <<"Q","Q">>,
     <<"M","D","0">>}

Heads == (DOMAIN ENGINE_PREFIXES) \cup UnknownHeads

Bases == {h \o t : h \in Heads, t \in Tails}

InsertAt(s, i, c) == SubSeq(s, 1, i) \o <<c>> \o SubSeq(s, i + 1, Len(s))

Inputs ==
    Bases
    \cup {Lower(b) : b \in Bases}
    \cup UNION {{InsertAt(b, i, "-") : i \in 0..Len(b)} : b \in Bases}
    \cup UNION {{InsertAt(b, i, " ") : i \in {0, Min({5, Len(b)}), Len(b)}} : b \in Bases}
    \cup {None, <<>>}

FormatInit ==
    /\ engine_number \in Inputs
    /\ v_called = FALSE
    /\ vresult = EmptyResult(engine_number)

\* one call of validate_engine_format
ValidateEngineFormat ==
    /\ ~v_called
    /\ v_called' = TRUE
    /\ vresult' = validate_engine_format(engine_number)
    /\ UNCHANGED <<engine_number, forensic_vars, anomaly_vars, year_vars, ocr_vars, rate_vars, font_vars, process_vars, reference_vars, vision_vars>>

FormatNext == ValidateEngineFormat

(***************************************************************************)
(* ForensicAIService: the opinion payload, analyze, _process_response,     *)
(* _calculate_risk_score_strict and get_verdict.                           *)
(*                                                                         *)
(* The payload `ai` is the parsed JSON of the model's answer.  A field     *)
(* holds what dict.get() yields for it, so a missing key is its default.   *)
(* Keys that start with a digit are written cN_ ('4_problema' is           *)
(* c4_problema).                                                           *)
(***************************************************************************)
LASER_TRANSITION_YEAR == 2010

Max2(a, b) == IF a >= b THEN a ELSE b
Min2(a, b) == IF a <= b THEN a ELSE b

\* int(x * num / 10) of Python: the quotient truncated towards zero
IntTimesTenths(x, num) ==
    IF x >= 0 THEN (x * num) \div 10 ELSE -(((-x) * num) \div 10)

\* the parsed answer "{}": every .get() yields its default
EmptyPayload ==
    [checklist_fonte |->
        [comparei_com_referencias |-> FALSE,
         quantos_caracteres_claramente_errados |-> 0,
         caracteres_com_problema_claro |-> <<>>,
         fonte_geral_compativel_honda |-> TRUE,
         c0_presente |-> FALSE, c0_problema |-> "nenhum", c0_similar_referencia_honda |-> TRUE,
         c1_presente |-> FALSE, c1_problema |-> "nenhum", c1_altura_normal |-> TRUE,
         c1_tem_barra_topo |-> TRUE,
         c4_presente |-> FALSE, c4_problema |-> "nenhum", c4_tem_gap_visivel |-> TRUE,
         c5_presente |-> FALSE, c5_problema |-> "nenhum", c5_barriga_aberta |-> TRUE,
         c5_similar_referencia_honda |-> TRUE,
         c6_presente |-> FALSE, c6_problema |-> "nenhum", c6_circulo_aberto |-> TRUE,
         c6_similar_referencia_honda |-> TRUE,
         c7_presente |-> FALSE, c7_problema |-> "nenhum", c7_sem_traco_meio |-> TRUE,
         c8_presente |-> FALSE, c8_problema |-> "nenhum", c8_similar_referencia_honda |-> TRUE,
         c9_presente |-> FALSE, c9_problema |-> "nenhum", c9_similar_referencia_honda |-> TRUE,
         padrao_fonte_computador |-> FALSE,
         multiplos_circulos_fechados |-> FALSE,
         consistencia_linha1_linha2 |-> TRUE],
     analise_gravacao |->
        [estilo_fonte_consistente |-> TRUE,
         tipo_linha1 |-> "", tipo_linha2 |-> "",
         mistura_tipos |-> FALSE,
         compativel_com_ano |-> TRUE],
     checklist_superficie |->
        [numeros_fantasma_visiveis |-> FALSE,
         tipo_marcas |-> "nenhuma",
         marcas_paralelas_uniformes |-> FALSE,
         marcas_concentradas_nos_numeros |-> FALSE],
     checklist_alinhamento |->
        [desalinhamento_severo |-> FALSE,
         indica_puncao_manual |-> FALSE,
         numeros_bem_alinhados |-> TRUE],
     veredicto |-> [classificacao |-> "", certeza |-> 0]]

\* the running (score, fonte_ok) of _calculate_risk_score_strict
Raise(st, v) == [score |-> Max2(st.score, v), fonte_ok |-> FALSE]
RaiseOnly(st, v) == [st EXCEPT !.score = Max2(@, v)]

\* "Se tem caracteres claramente errados = FRAUDE"
StepErros(cf, st) ==
    IF cf.quantos_caracteres_claramente_errados >= 1 \/ Len(cf.caracteres_com_problema_claro) >= 1
    THEN Raise(st, 85) ELSE st

\* "Se IA diz fonte nao compativel mas NAO apontou erros claros"
StepFonteCompativel(cf, st) ==
    IF /\ ~cf.fonte_geral_compativel_honda
       /\ cf.quantos_caracteres_claramente_errados = 0
       /\ Len(cf.caracteres_com_problema_claro) = 0
       /\ cf.comparei_com_referencias
    THEN RaiseOnly(st, 40) ELSE st

Step4(cf, st) ==
    IF cf.c4_presente /\ (~cf.c4_tem_gap_visivel \/ cf.c4_problema = "claramente_conectado")
    THEN Raise(st, 90) ELSE st

Step7(cf, st) ==
    IF cf.c7_presente /\ (~cf.c7_sem_traco_meio \/ cf.c7_problema = "tem_traco_europeu")
    THEN Raise(st, 85) ELSE st

Step1(cf, st) ==
    IF cf.c1_presente
       /\ \/ ~cf.c1_altura_normal \/ cf.c1_problema = "moral_baixa"
          \/ ~cf.c1_tem_barra_topo \/ cf.c1_problema = "sem_barra"
    THEN Raise(st, 85) ELSE st

Step0(cf, st) ==
    IF cf.c0_presente
       /\ \/ cf.c0_problema \in {"claramente_diferente", "fechado_circular"}
          \/ (~cf.c0_similar_referencia_honda /\ cf.c0_problema # "nenhum")
    THEN Raise(st, 85) ELSE st

Step5(cf, st) ==
    IF cf.c5_presente
       /\ \/ cf.c5_problema = "barriga_fechada"
          \/ (~cf.c5_barriga_aberta /\ ~cf.c5_similar_referencia_honda)
    THEN Raise(st, 85) ELSE st

Step6(cf, st) ==
    IF cf.c6_presente
       /\ \/ cf.c6_problema = "circulo_fechado"
          \/ (~cf.c6_circulo_aberto /\ ~cf.c6_similar_referencia_honda)
    THEN Raise(st, 85) ELSE st

Step8(cf, st) ==
    IF cf.c8_presente
       /\ \/ cf.c8_problema \in {"claramente_diferente", "circulos_fechados"}
          \/ (~cf.c8_similar_referencia_honda /\ cf.c8_problema # "nenhum")
    THEN Raise(st, 85) ELSE st

Step9(cf, st) ==
    IF cf.c9_presente
       /\ \/ cf.c9_problema \in {"claramente_diferente", "circulo_fechado"}
          \/ (~cf.c9_similar_referencia_honda /\ cf.c9_problema # "nenhum")
    THEN Raise(st, 85) ELSE st

Count(b) == IF b THEN 1 ELSE 0

circulos_fechados_count(cf) ==
    Count(cf.c0_problema = "fechado_circular") + Count(cf.c5_problema = "barriga_fechada")
    + Count(cf.c6_problema = "circulo_fechado") + Count(cf.c8_problema = "circulos_fechados")
    + Count(cf.c9_problema = "circulo_fechado")

\* "Multiplos circulos fechados = fonte de computador"
StepPadraoComputador(cf, st) ==
    IF cf.padrao_fonte_computador \/ cf.multiplos_circulos_fechados
       \/ circulos_fechados_count(cf) >= 2
    THEN Raise(st, 95) ELSE st

Flagged(p) == p \notin {"nenhum", ""}

total_erros(cf) ==
    LET declared == IF cf.quantos_caracteres_claramente_errados > 0
                    THEN cf.quantos_caracteres_claramente_errados
                    ELSE Len(cf.caracteres_com_problema_claro)
    IN  IF declared = 0
        THEN Count(Flagged(cf.c0_problema)) + Count(Flagged(cf.c1_problema))
             + Count(Flagged(cf.c4_problema)) + Count(Flagged(cf.c5_problema))
             + Count(Flagged(cf.c6_problema)) + Count(Flagged(cf.c7_problema))
             + Count(Flagged(cf.c8_problema)) + Count(Flagged(cf.c9_problema))
        ELSE declared

\* "Aumentar score baseado na quantidade de erros"
StepMultiplosErros(cf, st) ==
    IF total_erros(cf) >= 3 THEN RaiseOnly(st, 98)
    ELSE IF total_erros(cf) = 2 THEN RaiseOnly(st, 92)
    ELSE st

\* "Consistencia entre linhas"
StepConsistencia(payload, st) ==
    IF ~payload.checklist_fonte.consistencia_linha1_linha2
       \/ ~payload.analise_gravacao.estilo_fonte_consistente
    THEN Raise(st, 90) ELSE st

\* "Numeros fantasma = FRAUDE CONFIRMADA (sempre)"
StepFantasma(cs, st) ==
    IF cs.numeros_fantasma_visiveis THEN Raise(st, 98) ELSE st

lixamento_suspeito(cs) ==
    \/ cs.tipo_marcas = "lixamento_suspeito"
    \/ (cs.marcas_paralelas_uniformes /\ cs.marcas_concentradas_nos_numeros)

StepLixamento(cs, st) ==
    IF lixamento_suspeito(cs)
    THEN IF ~st.fonte_ok THEN RaiseOnly(st, 92) ELSE RaiseOnly(st, 50)
    ELSE st

\* "Checklist de alinhamento": severe is a floor of 90, irregular adds 20
StepAlinhamento(ca, st) ==
    IF ca.desalinhamento_severo \/ ca.indica_puncao_manual
    THEN Raise(st, 90)
    ELSE IF ~ca.numeros_bem_alinhados
    THEN [st EXCEPT !.score = @ + 20]
    ELSE st

StepMistura(ag, st) ==
    IF ag.mistura_tipos THEN Raise(st, 92) ELSE st

\* the verdict branch with ADULTERADO assigning the score instead of raising it
StepVeredicto_assigns(payload, st) ==
    LET classificacao == payload.veredicto.classificacao
        certeza == payload.veredicto.certeza
    IN  IF classificacao = "ADULTERADO"
        THEN IF st.fonte_ok /\ payload.checklist_fonte.quantos_caracteres_claramente_errados = 0
             THEN [st EXCEPT !.score = Min2(IntTimesTenths(certeza, 5), 55)]
             ELSE [st EXCEPT !.score = IntTimesTenths(certeza, 9)]
        ELSE IF classificacao = "SUSPEITO"
        THEN RaiseOnly(st, IntTimesTenths(certeza, 6))
        ELSE IF classificacao = "ORIGINAL" /\ st.fonte_ok /\ st.score < 50
        THEN [st EXCEPT !.score = IntTimesTenths(@, 5)]
        ELSE st

\* "Veredicto da IA"
StepVeredicto(payload, st) ==
    LET classificacao == payload.veredicto.classificacao
        certeza == payload.veredicto.certeza
    IN  IF classificacao = "ADULTERADO"
        THEN IF st.fonte_ok /\ payload.checklist_fonte.quantos_caracteres_claramente_errados = 0
             THEN RaiseOnly(st, Min2(IntTimesTenths(certeza, 5), 55))
             ELSE RaiseOnly(st, IntTimesTenths(certeza, 9))
        ELSE IF classificacao = "SUSPEITO"
        THEN RaiseOnly(st, IntTimesTenths(certeza, 6))
        ELSE IF classificacao = "ORIGINAL" /\ st.fonte_ok /\ st.score < 50
        THEN [st EXCEPT !.score = IntTimesTenths(@, 5)]
        ELSE st

\* "Ajuste final: se fonte OK e score baixo, reduzir"
StepAjusteFinal(st) ==
    IF st.fonte_ok /\ st.score > 0 /\ st.score < 50
    THEN [st EXCEPT !.score = IntTimesTenths(@, 7)]
    ELSE st

\* the return without its min(., 100)
ClampScore_missing(score) == score

\* return min(score, 100)
ClampScore(score) == Min2(score, 100)

_calculate_risk_score_strict(payload) ==
    LET cf == payload.checklist_fonte
        s0 == [score |-> 0, fonte_ok |-> TRUE]
        s1 == StepFonteCompativel(cf, StepErros(cf, s0))
        s2 == Step0(cf, Step1(cf, Step7(cf, Step4(cf, s1))))
        s3 == Step9(cf, Step8(cf, Step6(cf, Step5(cf, s2))))
        s4 == StepMultiplosErros(cf, StepPadraoComputador(cf, s3))
        s5 == StepFantasma(payload.checklist_superficie, StepConsistencia(payload, s4))
        s6 == StepLixamento(payload.checklist_superficie, s5)
        s7 == StepMistura(payload.analise_gravacao, StepAlinhamento(payload.checklist_alinhamento, s6))
        s8 == StepAjusteFinal(StepVeredicto(payload, s7))
    IN  ClampScore(s8.score)

get_expected_type(y) == IF y < LASER_TRANSITION_YEAR THEN "ESTAMPAGEM" ELSE "LASER"

get_verdict(score) ==
    IF score >= 80 THEN "FRAUDE CONFIRMADA"
    ELSE IF score >= 60 THEN "ALTA SUSPEITA"
    ELSE IF score >= 40 THEN "SUSPEITO"
    ELSE IF score >= 20 THEN "ATENCAO"      \* 'ATENÇÃO' in the source
    ELSE IF score >= 10 THEN "VERIFICAR"
    ELSE "REGULAR"

(***************************************************************************)
(* analyze and _process_response.  The result dict is tracked in its       *)
(* fields success, detected_type, expected_type, type_match,               *)
(* has_mixed_types and risk_score.                                         *)
(***************************************************************************)
ERROR_SCORE == 50

\* result = {...} at the top of analyze
InitialResult(y) ==
    [success |-> FALSE, detected_type |-> "DESCONHECIDO",
     expected_type |-> get_expected_type(y), type_match |-> TRUE,
     has_mixed_types |-> FALSE, risk_score |-> 0]

\* the section "GRAVACAO" of _process_response
_process_response(r, payload) ==
    LET ag == payload.analise_gravacao
        l1 == ag.tipo_linha1
        l2 == ag.tipo_linha2
    IN  [r EXCEPT
            !.detected_type = IF l1 # "" /\ l2 # ""
                              THEN (IF l1 = l2 THEN l1 ELSE "MISTURA")
                              ELSE @,
            !.has_mixed_types = IF ag.mistura_tipos THEN TRUE ELSE @,
            !.type_match = IF ~ag.compativel_com_ano THEN FALSE ELSE @]

\* analyze when the answer was received with status 200 and parsed to `payload`
AnalyzeOk(y, payload) ==
    LET r1 == [InitialResult(y) EXCEPT !.success = TRUE]
        r2 == _process_response(r1, payload)
    IN  [r2 EXCEPT !.risk_score = _calculate_risk_score_strict(payload)]

\* _parse_json: the dict of the answer, or {} when no JSON object is found in it
_parse_json(parsable, payload) == IF parsable THEN payload ELSE EmptyPayload

\* analyze on the paths that set the score to 50 and return
AnalyzeFailed(y, success) ==
    [InitialResult(y) EXCEPT !.success = success, !.risk_score = ERROR_SCORE]

(***************************************************************************)
(* The forensic service as a state machine: the payload `ai` is the        *)
(* answer the model gives for the image at hand; every step is one call    *)
(* of analyze, and evidence steps are calls for an image whose answer      *)
(* reports one more finding than the previous one.                         *)
(***************************************************************************)
MaxEvidence == 2
MaxErros == 3

Years == {2005, 2020}
Classificacoes == {"", "ORIGINAL", "SUSPEITO", "ADULTERADO"}
Certezas == {-20, 0, 60, 100, 150}
EngravingTypes == {"LASER", "ESTAMPAGEM"}

ProblemValues ==
    ("c0_problema" :> {"fechado_circular", "claramente_diferente", "outro"}) @@
    ("c1_problema" :> {"sem_barra", "moral_baixa", "outro"}) @@
    ("c4_problema" :> {"claramente_conectado"}) @@
    ("c5_problema" :> {"barriga_fechada"}) @@
    ("c6_problema" :> {"circulo_fechado"}) @@
    ("c7_problema" :> {"tem_traco_europeu"}) @@
    ("c8_problema" :> {"circulos_fechados", "claramente_diferente"}) @@
    ("c9_problema" :> {"circulo_fechado", "claramente_diferente"})

PresentFields ==
    {"c0_presente", "c1_presente", "c4_presente", "c5_presente",
     "c6_presente", "c7_presente", "c8_presente", "c9_presente"}

\* per-character checks that default to true and fail when false
CharCheckFields ==
    {"c0_similar_referencia_honda", "c1_altura_normal", "c1_tem_barra_topo",
     "c4_tem_gap_visivel", "c5_barriga_aberta", "c5_similar_referencia_honda",
     "c6_circulo_aberto", "c6_similar_referencia_honda", "c7_sem_traco_meio",
     "c8_similar_referencia_honda", "c9_similar_referencia_honda"}

\* findings on the font as a whole: the field and the value that reports it
FontFindings ==
    {<<"comparei_com_referencias", TRUE>>, <<"fonte_geral_compativel_honda", FALSE>>,
     <<"padrao_fonte_computador", TRUE>>, <<"multiplos_circulos_fechados", TRUE>>,
     <<"consistencia_linha1_linha2", FALSE>>}

GravacaoFindings ==
    {<<"estilo_fonte_consistente", FALSE>>, <<"mistura_tipos", TRUE>>,
     <<"compativel_com_ano", FALSE>>}

SurfaceFindings ==
    {<<"numeros_fantasma_visiveis", TRUE>>, <<"tipo_marcas", "lixamento_suspeito">>, <<"marcas_paralelas_uniformes", TRUE>>,
     <<"marcas_concentradas_nos_numeros", TRUE>>}

ForensicInit ==
    /\ f_enabled \in BOOLEAN
    /\ f_year \in Years
    /\ \E c \in Classificacoes, aligned \in BOOLEAN :
          ai = [EmptyPayload EXCEPT !.veredicto.classificacao = c,
                                    !.checklist_alinhamento.numeros_bem_alinhados = aligned]
    /\ f_path = "idle"
    /\ f_result = InitialResult(f_year)
    /\ f_steps = 0

\* "if not self.enabled": score 50
AnalyzeDisabled ==
    /\ f_path = "idle" /\ ~f_enabled
    /\ f_path' = "disabled"
    /\ f_result' = AnalyzeFailed(f_year, FALSE)
    /\ UNCHANGED <<f_enabled, f_year, ai, f_steps, format_vars, anomaly_vars, year_vars, ocr_vars, rate_vars, font_vars, process_vars, reference_vars, vision_vars>>

\* _analyze_with_ai_forensic returns success False (status not 200, or an
\* exception such as a timeout): score 50
AnalyzeAIError ==
    /\ f_path = "idle" /\ f_enabled
    /\ f_path' = "ai_error"
    /\ f_result' = AnalyzeFailed(f_year, FALSE)
    /\ UNCHANGED <<f_enabled, f_year, ai, f_steps, format_vars, anomaly_vars, year_vars, ocr_vars, rate_vars, font_vars, process_vars, reference_vars, vision_vars>>

\* an exception inside analyze, before or after result['success'] = True
AnalyzeException ==
    /\ f_path = "idle" /\ f_enabled
    /\ f_path' = "exception"
    /\ \E s \in BOOLEAN : f_result' = AnalyzeFailed(f_year, s)
    /\ UNCHANGED <<f_enabled, f_year, ai, f_steps, format_vars, anomaly_vars, year_vars, ocr_vars, rate_vars, font_vars, process_vars, reference_vars, vision_vars>>

\* status 200 with a text _parse_json finds no JSON object in
AnalyzeUnparseable ==
    /\ f_path = "idle" /\ f_enabled
    /\ f_path' = "unparseable"
    /\ ai' = _parse_json(FALSE, ai)
    /\ f_result' = AnalyzeOk(f_year, ai')
    /\ UNCHANGED <<f_enabled, f_year, f_steps, format_vars, anomaly_vars, year_vars, ocr_vars, rate_vars, font_vars, process_vars, reference_vars, vision_vars>>

\* status 200 and a parsed answer
Analyze ==
    /\ f_path = "idle" /\ f_enabled
    /\ f_path' = "ok"
    /\ ai' = _parse_json(TRUE, ai)
    /\ f_result' = AnalyzeOk(f_year, ai')
    /\ UNCHANGED <<f_enabled, f_year, f_steps, format_vars, anomaly_vars, year_vars, ocr_vars, rate_vars, font_vars, process_vars, reference_vars, vision_vars>>

\* analyze for an answer that differs from the last one in one finding
AnalyzeWith(payload) ==
    /\ f_path = "ok"
    /\ f_steps < MaxEvidence
    /\ payload # ai
    /\ ai' = payload
    /\ f_result' = AnalyzeOk(f_year, payload)
    /\ f_steps' = f_steps + 1
    /\ UNCHANGED <<f_enabled, f_year, f_path, format_vars, anomaly_vars, year_vars, ocr_vars, rate_vars, font_vars, process_vars, reference_vars, vision_vars>>

ReportWrongChars ==
    \E n \in 1..MaxErros :
        /\ n > ai.checklist_fonte.quantos_caracteres_claramente_errados
        /\ AnalyzeWith([ai EXCEPT !.checklist_fonte.quantos_caracteres_claramente_errados = n])

ListProblemChar ==
    /\ Len(ai.checklist_fonte.caracteres_com_problema_claro) < MaxErros
    /\ AnalyzeWith([ai EXCEPT !.checklist_fonte.caracteres_com_problema_claro = Append(@, "4")])

FlagCharProblem ==
    \E f \in DOMAIN ProblemValues : \E v \in ProblemValues[f] :
        /\ ai.checklist_fonte[f] = "nenhum"
        /\ AnalyzeWith([ai EXCEPT !.checklist_fonte[f] = v])

MarkCharPresent ==
    \E f \in PresentFields :
        /\ ~ai.checklist_fonte[f]
        /\ AnalyzeWith([ai EXCEPT !.checklist_fonte[f] = TRUE])

FailCharCheck ==
    \E f \in CharCheckFields :
        /\ ai.checklist_fonte[f]
        /\ AnalyzeWith([ai EXCEPT !.checklist_fonte[f] = FALSE])

ReportFontFinding ==
    \E p \in FontFindings : AnalyzeWith([ai EXCEPT !.checklist_fonte[p[1]] = p[2]])

ReportGravacaoFinding ==
    \E p \in GravacaoFindings : AnalyzeWith([ai EXCEPT !.analise_gravacao[p[1]] = p[2]])

ReportLineTypes ==
    \E t1 \in EngravingTypes, t2 \in EngravingTypes :
        /\ ai.analise_gravacao.tipo_linha1 = "" /\ ai.analise_gravacao.tipo_linha2 = ""
        /\ AnalyzeWith([ai EXCEPT !.analise_gravacao.tipo_linha1 = t1,
                                  !.analise_gravacao.tipo_linha2 = t2])

ReportSurfaceFinding ==
    \E p \in SurfaceFindings :
        /\ p[1] = "tipo_marcas" => ai.checklist_superficie.tipo_marcas = "nenhuma"
        /\ AnalyzeWith([ai EXCEPT !.checklist_superficie[p[1]] = p[2]])

ReportSevereMisalignment ==
    AnalyzeWith([ai EXCEPT !.checklist_alinhamento.desalinhamento_severo = TRUE])

ReportManualPunch ==
    AnalyzeWith([ai EXCEPT !.checklist_alinhamento.indica_puncao_manual = TRUE])

StateCertainty ==
    \E c \in Certezas :
        /\ ai.veredicto.certeza = 0
        /\ AnalyzeWith([ai EXCEPT !.veredicto.certeza = c])

ForensicNext ==
    \/ AnalyzeDisabled
    \/ AnalyzeAIError
    \/ AnalyzeException
    \/ AnalyzeUnparseable
    \/ Analyze
    \/ ReportWrongChars
    \/ ListProblemChar
    \/ FlagCharProblem
    \/ MarkCharPresent
    \/ FailCharCheck
    \/ ReportFontFinding
    \/ ReportGravacaoFinding
    \/ ReportLineTypes
    \/ ReportSurfaceFinding
    \/ ReportSevereMisalignment
    \/ ReportManualPunch
    \/ StateCertainty

(***************************************************************************)
(* AnomalyService (services/anomaly_service.py).                           *)
(*                                                                         *)
(* An image is what _detect_type_opencv measures on it: whether            *)
(* cv2.imdecode gives an image, and the five metrics, as integers          *)
(* (edge_density in 1/100, thickness_ratio and gradient_std in 1/10).      *)
(* Confidences are in percent.  'ATENÇÃO', 'CRÍTICO' and 'MÉDIO' are       *)
(* written without accents.                                                *)
(***************************************************************************)
CONFIDENCE_THRESHOLD == 70

MAX_CV_CONFIDENCE == 95

Image(dec, e, t, v, g, c) ==
    [decodable |-> dec, edge_density |-> e, thickness_ratio |-> t,
     texture_variance |-> v, gradient_std |-> g, small_contours |-> c]

\* bytes cv2.imdecode returns None for
Undecodable == Image(FALSE, 0, 0, 0, 0, 0)

\* "Pontuacao LASER"
laser_score(img) ==
      (IF img.edge_density > 8 THEN 25 ELSE IF img.edge_density > 5 THEN 15 ELSE 0)
    + (IF img.thickness_ratio < 20 THEN 25 ELSE IF img.thickness_ratio < 25 THEN 15 ELSE 0)
    + (IF img.texture_variance < 300 THEN 20 ELSE IF img.texture_variance < 500 THEN 10 ELSE 0)
    + (IF img.gradient_std < 12 THEN 15 ELSE IF img.gradient_std < 15 THEN 8 ELSE 0)
    + (IF img.small_contours > 100 THEN 15 ELSE IF img.small_contours > 50 THEN 8 ELSE 0)

\* the decision with the confidences left uncapped
_detect_type_opencv_uncapped(img) ==
    IF ~img.decodable
    THEN [type |-> "DESCONHECIDO", confidence |-> 0]
    ELSE LET s == laser_score(img)
         IN  IF s >= 65
             THEN [type |-> "LASER", confidence |-> s]
             ELSE IF s <= 35
             THEN [type |-> "ESTAMPAGEM", confidence |-> 100 - s]
             ELSE [type |-> "DESCONHECIDO", confidence |-> 50]

_detect_type_opencv(img) ==
    IF ~img.decodable
    THEN [type |-> "DESCONHECIDO", confidence |-> 0]
    ELSE LET s == laser_score(img)
         IN  IF s >= 65
             THEN [type |-> "LASER", confidence |-> Min2(s, MAX_CV_CONFIDENCE)]
             ELSE IF s <= 35
             THEN [type |-> "ESTAMPAGEM", confidence |-> Min2(100 - s, MAX_CV_CONFIDENCE)]
             ELSE [type |-> "DESCONHECIDO", confidence |-> 50]

\* 'needle' in hay
Contains(hay, needle) ==
    \E i \in 1..(Len(hay) - Len(needle) + 1) : SubSeq(hay, i, i + Len(needle) - 1) = needle

\* the answer of the model, as the text after 'TIPO:' and the numbers found
\* after 'CONFIANCA:' (no line: empty text, no number)
_parse_claude_response(answer) ==
    LET tipo == Upper(answer.tipo)
    IN  [detected_type |->
            IF Contains(tipo, <<"L","A","S","E","R">>) THEN "LASER"
            ELSE IF Contains(tipo, <<"E","S","T","A","M","P","A">>) THEN "ESTAMPAGEM"
            ELSE "DESCONHECIDO",
         confidence |-> IF Len(answer.numbers) > 0 THEN answer.numbers[1] ELSE 50]

\* _analyze_with_claude: what it returns for the HTTP outcome `response`
_analyze_with_claude(response) ==
    IF response.kind = "ok"
    THEN LET p == _parse_claude_response(response.answer)
         IN  [success |-> TRUE, detected_type |-> p.detected_type, confidence |-> p.confidence]
    ELSE [success |-> FALSE, detected_type |-> "DESCONHECIDO", confidence |-> 0]

\* the middle of the list as given, doubled
Median2_unsorted(xs) ==
    LET n == Len(xs)
    IN  IF n % 2 = 1 THEN 2 * xs[(n + 1) \div 2] ELSE xs[n \div 2] + xs[n \div 2 + 1]

\* np.median, doubled
Median2(xs) ==
    LET s == SortSeq(xs, LAMBDA a, b : a < b)
        n == Len(s)
    IN  IF n % 2 = 1 THEN 2 * s[(n + 1) \div 2] ELSE s[n \div 2] + s[n \div 2 + 1]

Abs(x) == IF x < 0 THEN -x ELSE x

Positive(x) == x > 0

\* the outliers _analyze_alignment returns
_analyze_alignment(metrics) ==
    LET ys == [i \in 1..Len(metrics) |-> metrics[i].center_y]
        hs == [i \in 1..Len(metrics) |-> metrics[i].height]
        centers == SelectSeq(ys, Positive)
        heights == SelectSeq(hs, Positive)
        \* deviation > median_height * 0.15
        Off(i) == /\ ys[i] # 0
                  /\ 20 * Abs(2 * ys[i] - Median2(centers)) > 3 * Median2(heights)
        Issues[i \in 0..Len(metrics)] ==
            IF i = 0 THEN <<>>
            ELSE IF Off(i) THEN Append(Issues[i - 1],
                                    [position |-> metrics[i].index + 1, severity |-> "MEDIO"])
            ELSE Issues[i - 1]
    IN  IF Len(metrics) < 3 \/ Len(centers) = 0 \/ Len(heights) = 0
        THEN <<>>
        ELSE Issues[Len(metrics)]

_determine_status(result) ==
    LET outliers == Len(result.outliers)
        alerts == result.high_risk_alerts
        critical == Cardinality({i \in 1..outliers : result.outliers[i].severity = "CRITICO"})
    IN  IF ~result.type_match THEN "SUSPEITO"
        ELSE IF critical > 0 THEN "SUSPEITO"
        ELSE IF outliers > 3 \/ alerts > 2 THEN "SUSPEITO"
        ELSE IF outliers > 0 \/ alerts > 0 THEN "VERIFICAR"
        ELSE IF ~result.alignment_ok THEN "ATENCAO"
        ELSE "OK"

get_expected_type_for_year(year) ==
    IF year < LASER_TRANSITION_YEAR THEN "ESTAMPAGEM" ELSE "LASER"

\* result = {...} at the top of analyze; high_risk_alerts is kept as its length,
\* ai_analysis as <<>> (None) or <<dict>>
InitialAnomalyResult(expected_type) ==
    [status |-> "OK", detected_type |-> "DESCONHECIDO", expected_type |-> expected_type,
     type_match |-> TRUE, detection_confidence |-> 0, alignment_ok |-> TRUE,
     high_risk_alerts |-> 0, outliers |-> <<>>, ai_analysis |-> <<>>]

\* the decision taken as yes for every classification
use_ai_always(cv, expected_type) == TRUE

\* "2. DECISAO: Usar IA?"
use_ai(cv, expected_type) ==
    \/ cv.confidence < CONFIDENCE_THRESHOLD
    \/ (cv.type # "DESCONHECIDO" /\ cv.type # expected_type)

\* "3." with every answer taking priority, not only a successful one
ApplyAI_always(result, ai_result) ==
    [result EXCEPT !.ai_analysis = <<ai_result>>,
                   !.detected_type = ai_result.detected_type,
                   !.detection_confidence = ai_result.confidence]

\* "3. ANALISE COM IA": the AI has priority over the computational analysis
ApplyAI(result, ai_result) ==
    IF ai_result.success
    THEN [result EXCEPT !.ai_analysis = <<ai_result>>,
                        !.detected_type = ai_result.detected_type,
                        !.detection_confidence = ai_result.confidence]
    ELSE [result EXCEPT !.ai_analysis = <<ai_result>>]

\* the validation without the test for DESCONHECIDO
ValidateType_flags_unknown(result) ==
    IF result.detected_type # result.expected_type
    THEN [result EXCEPT !.type_match = FALSE,
                        !.outliers = Append(@, [position |-> 0, severity |-> "CRITICO"]),
                        !.high_risk_alerts = @ + 1]
    ELSE result

\* "4. VALIDACAO: Tipo vs Ano"
ValidateType(result) ==
    IF result.detected_type # "DESCONHECIDO" /\ result.detected_type # result.expected_type
    THEN [result EXCEPT !.type_match = FALSE,
                        !.outliers = Append(@, [position |-> 0, severity |-> "CRITICO"]),
                        !.high_risk_alerts = @ + 1]
    ELSE result

\* the alignment step with the findings left out of outliers
AlignmentStep_flag_only(result, ocr_metrics) ==
    LET alignment_issues == IF Len(ocr_metrics) > 0 THEN _analyze_alignment(ocr_metrics) ELSE <<>>
    IN  IF Len(alignment_issues) > 0
        THEN [result EXCEPT !.alignment_ok = FALSE]
        ELSE result

\* "5. Analise de alinhamento"
AlignmentStep(result, ocr_metrics) ==
    LET alignment_issues == IF Len(ocr_metrics) > 0 THEN _analyze_alignment(ocr_metrics) ELSE <<>>
    IN  IF Len(alignment_issues) > 0
        THEN [result EXCEPT !.alignment_ok = FALSE, !.outliers = @ \o alignment_issues]
        ELSE result

\* "6. Analise tipografica": font_alerts is len(font_result['alerts'])
FontStep(result, font_alerts) == [result EXCEPT !.high_risk_alerts = @ + font_alerts]

\* AnomalyService.analyze; `response` is the outcome of the HTTP call when it is made
AnomalyAnalyze(image_bytes, ocr_metrics, expected_type, font_alerts, use_claude, response) ==
    LET cv == _detect_type_opencv(image_bytes)
        r1 == [InitialAnomalyResult(expected_type) EXCEPT
                    !.detected_type = cv.type, !.detection_confidence = cv.confidence]
        r2 == IF use_ai(cv, expected_type) /\ use_claude
              THEN ApplyAI(r1, _analyze_with_claude(response))
              ELSE r1
        r3 == ValidateType(r2)
        r4 == AlignmentStep(r3, ocr_metrics)
        r5 == FontStep(r4, font_alerts)
    IN  [r5 EXCEPT !.status = _determine_status(r5)]

(***************************************************************************)
(* The service as a state machine: the arguments are fixed at the start,   *)
(* the call takes one of three paths.                                      *)
(***************************************************************************)
MaxGlyphs == 3

EdgeDensities == {3, 6, 9}
ThicknessRatios == {18, 30}
TextureVariances == {200, 600}
GradientStds == {10, 20}
SmallContours == {20, 150}

\* images whose thickness, texture and gradient fall in the middle bands
MidImages ==
    {Image(TRUE, e, 22, 400, 13, c) : e \in EdgeDensities, c \in {20, 70, 150}}

Images ==
    {Undecodable} \cup MidImages \cup
    {Image(TRUE, e, t, v, g, c) :
        e \in EdgeDensities, t \in ThicknessRatios, v \in TextureVariances,
        g \in GradientStds, c \in SmallContours}

\* glyphs on the line, 10 px below it, and without a box
Glyphs ==
    {[center_y |-> 100, height |-> 40], [center_y |-> 110, height |-> 40],
     [center_y |-> 0, height |-> 0]}

\* get_character_metrics (ocr.py): 'index' counts the glyphs from 0
Indexed(gs) ==
    [i \in 1..Len(gs) |->
        [center_y |-> gs[i].center_y, height |-> gs[i].height, index |-> i - 1]]

MetricLists == UNION {{Indexed(gs) : gs \in [1..n -> Glyphs]} : n \in 0..MaxGlyphs}

FontAlertCounts == {0, 1, 3}

NoResponse == [kind |-> "none", answer |-> [tipo |-> <<>>, numbers |-> <<>>]]

Failures == {"http_error", "exception", "timeout"}

TipoTexts ==
    {<<"L","A","S","E","R">>, <<"E","s","t","a","m","p","a","g","e","m">>,
     <<"I","N","D","E","F","I","N","I","D","O">>}

Answers == [tipo : TipoTexts, numbers : {<<>>, <<90>>}]

AnomalyInit ==
    /\ a_image \in Images
    /\ a_metrics \in MetricLists
    /\ a_expected \in EngravingTypes
    /\ a_use_claude \in BOOLEAN
    /\ a_font_alerts \in FontAlertCounts
    /\ a_path = "idle"
    /\ a_result = InitialAnomalyResult(a_expected)
    /\ a_calls = <<>>

AICalled == a_use_claude /\ use_ai(_detect_type_opencv(a_image), a_expected)

\* "1. DETECCAO COMPUTACIONAL", then "3. ANALISE COM IA (se necessario)"
CallsOf(ai_called) ==
    <<"_detect_type_opencv">> \o (IF ai_called THEN <<"_analyze_with_claude">> ELSE <<>>)

Return(path, response) ==
    /\ a_path = "idle"
    /\ a_path' = path
    /\ a_result' = AnomalyAnalyze(a_image, a_metrics, a_expected, a_font_alerts,
                                  a_use_claude, response)
    /\ a_calls' = CallsOf(AICalled)
    /\ UNCHANGED <<a_image, a_metrics, a_expected, a_use_claude, a_font_alerts,
                   format_vars, forensic_vars, year_vars, ocr_vars, rate_vars, font_vars, process_vars, reference_vars, vision_vars>>

\* analyze without a call of the AI
AnalyzeComputational ==
    /\ ~AICalled
    /\ Return("computational", NoResponse)

\* analyze when the call of the AI fails
AnalyzeAIFailed ==
    /\ AICalled
    /\ \E k \in Failures : Return("ai_failed", [NoResponse EXCEPT !.kind = k])

\* analyze when the AI answers
AnalyzeAIAnswered ==
    /\ AICalled
    /\ \E ans \in Answers : Return("ai_ok", [kind |-> "ok", answer |-> ans])

AnomalyNext ==
    \/ AnalyzeComputational
    \/ AnalyzeAIFailed
    \/ AnalyzeAIAnswered

(***************************************************************************)
(* The year of the vehicle: validate_year (main.py) and the three          *)
(* implementations of the expected engraving type.  The transition year    *)
(* is 2010 in each of the three classes.                                   *)
(***************************************************************************)
MIN_YEAR == 1970
FORM_MAX_YEAR == 2100
YEAR_MARGIN == 2
HONDA_MIN_YEAR == 1980
HONDA_MAX_YEAR == 2100

\* HondaMotorSpecs.get_expected_engraving_type
get_expected_engraving_type(year) ==
    IF year < HONDA_MIN_YEAR \/ year > HONDA_MAX_YEAR THEN "DESCONHECIDO"
    ELSE IF year >= LASER_TRANSITION_YEAR THEN "LASER" ELSE "ESTAMPAGEM"

\* HondaMotorSpecs.get_expected_type: the value of the enum member
HondaMotorSpecs_get_expected_type(year) == get_expected_engraving_type(year)

\* Form(ge=1970, le=2100) and validate_year: TRUE when the year is accepted
validate_year(year, now) ==
    /\ year >= MIN_YEAR /\ year <= FORM_MAX_YEAR
    /\ ~(year < MIN_YEAR)
    /\ ~(year > now + YEAR_MARGIN)

PostedYears == 1960..2035
Nows == {2025, 2026}

NoTypes == [honda |-> "", anomaly |-> "", forensic |-> ""]

YearInit ==
    /\ y_year \in PostedYears
    /\ y_now \in Nows
    /\ y_status = "posted"
    /\ y_types = NoTypes

\* the request is refused with status 400
RejectYear ==
    /\ y_status = "posted"
    /\ ~validate_year(y_year, y_now)
    /\ y_status' = "rejected"
    /\ UNCHANGED <<y_year, y_now, y_types, format_vars, forensic_vars, anomaly_vars, ocr_vars, rate_vars, font_vars, process_vars, reference_vars, vision_vars>>

AcceptYear ==
    /\ y_status = "posted"
    /\ validate_year(y_year, y_now)
    /\ y_status' = "accepted"
    /\ UNCHANGED <<y_year, y_now, y_types, format_vars, forensic_vars, anomaly_vars, ocr_vars, rate_vars, font_vars, process_vars, reference_vars, vision_vars>>

\* the expected type asked of each implementation for the accepted year
ExpectedTypes ==
    /\ y_status = "accepted"
    /\ y_status' = "typed"
    /\ y_types' = [honda |-> HondaMotorSpecs_get_expected_type(y_year),
                   anomaly |-> get_expected_type_for_year(y_year),
                   forensic |-> get_expected_type(y_year)]
    /\ UNCHANGED <<y_year, y_now, format_vars, forensic_vars, anomaly_vars, ocr_vars, rate_vars, font_vars, process_vars, reference_vars, vision_vars>>

YearNext ==
    \/ RejectYear
    \/ AcceptYear
    \/ ExpectedTypes

(***************************************************************************)
(* RateLimitMiddleware (main.py).  dispatch has no await between           *)
(* time.time() and the append, so on the event loop that part of a request *)
(* runs as one step; requests wait in call_next side by side.  Time is in  *)
(* seconds.                                                                *)
(***************************************************************************)
WINDOW == 60

\* RATE_LIMIT_PER_MINUTE as configured
requests_per_minute == 2

MaxNow == 60
MaxInflight == 2

TickSteps == {20, 40}

ClientIPs == {"10.0.0.1", "unknown"}

\* "Limpa requests antigos (mais de 1 minuto)"
Pruned(times, now) ==
    LET Fresh(req_time) == now - req_time < WINDOW
    IN  SelectSeq(times, Fresh)

\* the limit test letting one request more through
OverLimit_off_by_one(times) == Len(times) > requests_per_minute

\* "Verifica limite"
OverLimit(times) == Len(times) >= requests_per_minute

NoRequest == [ip |-> "", status |-> 0]

RateInit ==
    /\ r_now = 0
    /\ r_requests = [ip \in ClientIPs |-> <<>>]
    /\ r_admitted = [ip \in ClientIPs |-> <<>>]
    /\ r_inflight = [ip \in ClientIPs |-> 0]
    /\ r_last = NoRequest

\* time.time() moves on
Tick ==
    /\ \E d \in TickSteps :
          /\ r_now + d <= MaxNow
          /\ r_now' = r_now + d
    /\ UNCHANGED <<r_requests, r_admitted, r_inflight, r_last,
                   format_vars, forensic_vars, anomaly_vars, year_vars, ocr_vars, font_vars, process_vars, reference_vars, vision_vars>>

InflightTotal(n) ==
    LET Sum[S \in SUBSET ClientIPs] ==
            IF S = {} THEN 0
            ELSE LET ip == CHOOSE x \in S : TRUE IN n[ip] + Sum[S \ {ip}]
    IN  Sum[ClientIPs]

\* dispatch up to the 429 response
DispatchReject ==
    \E client_ip \in ClientIPs :
        LET kept == Pruned(r_requests[client_ip], r_now)
        IN  /\ OverLimit(kept)
            /\ r_requests' = [r_requests EXCEPT ![client_ip] = kept]
            /\ r_last' = [ip |-> client_ip, status |-> 429]
            /\ UNCHANGED <<r_now, r_admitted, r_inflight,
                           format_vars, forensic_vars, anomaly_vars, year_vars, ocr_vars, font_vars, process_vars, reference_vars, vision_vars>>

\* dispatch up to the await of call_next
DispatchForward ==
    \E client_ip \in ClientIPs :
        LET kept == Pruned(r_requests[client_ip], r_now)
        IN  /\ ~OverLimit(kept)
            /\ InflightTotal(r_inflight) < MaxInflight
            /\ r_requests' = [r_requests EXCEPT ![client_ip] = Append(kept, r_now)]
            /\ r_admitted' = [r_admitted EXCEPT ![client_ip] = Append(@, r_now)]
            /\ r_inflight' = [r_inflight EXCEPT ![client_ip] = @ + 1]
            /\ r_last' = [ip |-> client_ip, status |-> 0]
            /\ UNCHANGED <<r_now,
                           format_vars, forensic_vars, anomaly_vars, year_vars, ocr_vars, font_vars, process_vars, reference_vars, vision_vars>>

\* call_next returns the response of the application
CallNextReturns ==
    \E client_ip \in ClientIPs :
        /\ r_inflight[client_ip] > 0
        /\ r_inflight' = [r_inflight EXCEPT ![client_ip] = @ - 1]
        /\ r_last' = [ip |-> client_ip, status |-> 200]
        /\ UNCHANGED <<r_now, r_requests, r_admitted,
                       format_vars, forensic_vars, anomaly_vars, year_vars, ocr_vars, font_vars, process_vars, reference_vars, vision_vars>>

RateNext ==
    \/ Tick
    \/ DispatchReject
    \/ DispatchForward
    \/ CallNextReturns

(***************************************************************************)
(* The OCR code normalizer (services/ocr.py): steps 3 and 4 of             *)
(* OCREngine.process_image, _reorganize_honda_format and                   *)
(* _apply_honda_corrections.  Texts are sequences of characters.           *)
(***************************************************************************)
KNOWN_PREFIXES ==
    <<<<"N","D","0","9","E","1">>, <<"M","D","0","9","E","1">>,
      <<"M","D","0","9","E">>, <<"N","D","0","9","E">>,
      <<"M","C","2","7","E">>, <<"M","C","4","1","E">>,
      <<"M","C","3","8","E">>, <<"M","C","5","2","E">>,
      <<"M","C","6","5","E">>, <<"M","D","3","7","E">>,
      <<"M","D","3","8","E">>, <<"M","D","4","4","E">>,
      <<"N","C","5","1","E">>, <<"N","C","5","6","E">>,
      <<"N","C","7","0","E">>, <<"N","C","7","5","E">>,
      <<"J","C","3","0","E">>, <<"J","C","7","5","E">>,
      <<"J","C","7","9","E">>, <<"J","F","7","7","E">>,
      <<"J","F","8","1","E">>, <<"J","F","8","3","E">>,
      <<"P","C","4","0","E">>, <<"P","C","4","4","E">>,
      <<"J","K","1","2","E">>, <<"K","Y","J">>>>

\* str.replace for one character
Replace(text, a, b) == [i \in 1..Len(text) |-> IF text[i] = a THEN b ELSE text[i]]

Has(text, c) == \E i \in 1..Len(text) : text[i] = c

\* str.index: the first place where needle starts, from 1
IndexOf(hay, needle) ==
    Min({i \in 1..(Len(hay) - Len(needle) + 1) : SubSeq(hay, i, i + Len(needle) - 1) = needle})

_generate_ocr_variants(text) ==
    LET v2 == Replace(text, "I", "1")
    IN  <<text, Replace(text, "O", "0"), Replace(text, "0", "O"), v2, Replace(v2, "O", "0")>>

_generate_prefix_variants(prefix) ==
    <<prefix>>
    \o (IF Has(prefix, "D") THEN <<Replace(prefix, "D", "O"), Replace(prefix, "D", "0")>> ELSE <<>>)
    \o (IF Has(prefix, "0") THEN <<Replace(prefix, "0", "O")>> ELSE <<>>)
    \o (IF Has(prefix, "1") THEN <<Replace(prefix, "1", "I"), Replace(prefix, "1", "l")>> ELSE <<>>)

\* the prefix variants in the order the two inner loops try them
PrefixVariantList ==
    LET Upto[j \in 0..Len(KNOWN_PREFIXES)] ==
            IF j = 0 THEN <<>>
            ELSE Upto[j - 1] \o _generate_prefix_variants(KNOWN_PREFIXES[j])
    IN  Upto[Len(KNOWN_PREFIXES)]

MIN_REORGANIZE_LEN == 10

_reorganize_honda_format(text) ==
    IF Len(text) < MIN_REORGANIZE_LEN THEN text
    ELSE LET variants == _generate_ocr_variants(text)
             Hits(i) == {k \in 1..Len(PrefixVariantList) :
                            Contains(variants[i], PrefixVariantList[k])}
             found == {i \in 1..Len(variants) : Hits(i) # {}}
         IN  IF found = {} THEN text
             ELSE LET variant == variants[Min(found)]
                      pv == PrefixVariantList[Min(Hits(Min(found)))]
                      idx == IndexOf(variant, pv)
                  IN  IF idx > 1
                      THEN pv \o SubSeq(variant, 1, idx - 1)
                              \o SubSeq(variant, idx + Len(pv), Len(variant))
                      ELSE variant

\* 'O' -> '0', 'I' -> '1' at place i (from 1)
ToDigit(result, i) ==
    IF result[i] = "O" THEN [result EXCEPT ![i] = "0"]
    ELSE IF result[i] = "I" THEN [result EXCEPT ![i] = "1"]
    ELSE result

\* "CORRECAO POSICAO 2" rewriting only after N and M
CorrectPosition2_only_D(result) ==
    IF Len(result) >= 2 /\ result[2] \in {"O", "0"} /\ result[1] \in {"N", "M"}
    THEN [result EXCEPT ![2] = "D"]
    ELSE result

\* "CORRECAO POSICAO 2: O/0 -> D ou C"
CorrectPosition2(result) ==
    IF Len(result) >= 2 /\ result[2] \in {"O", "0"}
    THEN IF result[1] \in {"N", "M"} THEN [result EXCEPT ![2] = "D"]
         ELSE IF result[1] \in {"J", "P", "N"} THEN [result EXCEPT ![2] = "C"]
         ELSE result
    ELSE result

\* "CORRECAO POSICOES 3,4"
CorrectPositions34(result) ==
    IF Len(result) >= 4 THEN ToDigit(ToDigit(result, 3), 4) ELSE result

\* "CORRECAO POSICAO 6"
CorrectPosition6(result) ==
    IF Len(result) >= 6 THEN ToDigit(result, 6) ELSE result

MIN_SERIAL_FIX_LEN == 13
SERIAL_FIX_FROM == 8
SERIAL_FIX_TO == 14

\* "CORRECAO NO SERIAL": for i in range(7, min(14, len(result)))
CorrectSerial(result) ==
    IF Len(result) >= MIN_SERIAL_FIX_LEN
    THEN [i \in 1..Len(result) |->
            IF i >= SERIAL_FIX_FROM /\ i <= Min2(SERIAL_FIX_TO, Len(result))
            THEN ToDigit(result, i)[i]
            ELSE result[i]]
    ELSE result

MIN_CORRECT_LEN == 6

_apply_honda_corrections(text) ==
    IF Len(text) < MIN_CORRECT_LEN THEN text
    ELSE CorrectSerial(CorrectPosition6(CorrectPositions34(CorrectPosition2(text))))

(***************************************************************************)
(* The normalizer as a state machine: a text read by the OCR is            *)
(* reorganized, then corrected; the corrected text can be given to the     *)
(* normalizer again.                                                       *)
(***************************************************************************)
MaxPasses == 2

\* prefixes and serials as the OCR reads them, well or badly
Pieces ==
    {<<"N","D","0","9","E","1">>,
     <<"N","O","0","9","E","I">>,
     <<"M","0","O","9","E">>,
     <<"J","C","3","0","E">>,
     <<"P","0","4","O","E">>,
     <<"K","Y","J">>,
     <<"K","O">>,
     <<"B","2","1","5","7","9","7">>,
     <<"B","2","I","5","O","9","7">>,
     <<"O","I">>}

Readings ==
    Pieces \cup {a \o b : a, b \in Pieces} \cup {a \o b \o c : a, b, c \in Pieces}

OcrInit ==
    /\ o_text \in Readings
    /\ o_mid = <<>>
    /\ o_out = o_text
    /\ o_history = <<>>
    /\ o_stage = "read"

\* step 3 of process_image
Reorganize ==
    /\ o_stage \in {"read", "corrected"}
    /\ Len(o_history) < MaxPasses
    /\ o_mid' = _reorganize_honda_format(o_out)
    /\ o_stage' = "reorganized"
    /\ UNCHANGED <<o_text, o_out, o_history,
                   format_vars, forensic_vars, anomaly_vars, year_vars, rate_vars, font_vars, process_vars, reference_vars, vision_vars>>

\* step 4 of process_image
Correct ==
    /\ o_stage = "reorganized"
    /\ o_out' = _apply_honda_corrections(o_mid)
    /\ o_history' = Append(o_history, o_out')
    /\ o_stage' = "corrected"
    /\ UNCHANGED <<o_text, o_mid,
                   format_vars, forensic_vars, anomaly_vars, year_vars, rate_vars, font_vars, process_vars, reference_vars, vision_vars>>

OcrNext ==
    \/ Reorganize
    \/ Correct

(***************************************************************************)
(* OCREngine.process_image from the combined text on: the local steps,     *)
(* then the fallback to Claude Vision.  An Optional[str] is <<>> for None  *)
(* and <<text>> otherwise.                                                 *)
(***************************************************************************)
MIN_VALID_LEN == 10
MIN_CLAUDE_LEN == 10

\* r'^[MNJPK][DC][0-9]{2}E[0-9]?[A-Z]?[0-9]{6,7}$'
GeneralPattern(text) ==
    \E a \in {0, 1}, b \in {0, 1}, n \in {6, 7} :
        /\ Len(text) = 5 + a + b + n
        /\ text[1] \in {"M", "N", "J", "P", "K"}
        /\ text[2] \in {"D", "C"}
        /\ text[3] \in Digits
        /\ text[4] \in Digits
        /\ text[5] = "E"
        /\ a = 1 => text[6] \in Digits
        /\ b = 1 => text[6 + a] \in Letters
        /\ \A i \in (6 + a + b)..Len(text) : text[i] \in Digits

_is_valid_format(text) ==
    IF Len(text) < MIN_VALID_LEN THEN FALSE
    ELSE \/ \E i \in 1..Len(KNOWN_PREFIXES) : StartsWith(text, KNOWN_PREFIXES[i])
         \/ GeneralPattern(text)

\* re.sub(r'[^A-Z0-9]', '', content.upper())
Alphanumerics(content) ==
    LET Kept(c) == c \in Letters \cup Digits
    IN  SelectSeq(Upper(content), Kept)

\* the fallback returning the code whatever its length
_ocr_with_claude_any_length(use_claude, response) ==
    IF ~use_claude THEN <<>>
    ELSE IF response.kind = "ok" THEN <<Alphanumerics(response.content)>>
    ELSE <<>>

\* _ocr_with_claude; `response` is the outcome of the HTTP call
_ocr_with_claude(use_claude, response) ==
    IF ~use_claude THEN <<>>
    ELSE IF response.kind = "ok"
    THEN LET code == Alphanumerics(response.content)
         IN  IF Len(code) >= MIN_CLAUDE_LEN THEN <<code>> ELSE <<>>
    ELSE <<>>

\* "5. Verifica se precisa Claude"
needs_claude(corrected, force_claude) == force_claude \/ ~_is_valid_format(corrected)

\* the code process_image returns
process_image(combined, force_claude, use_claude, response) ==
    LET corrected == _apply_honda_corrections(_reorganize_honda_format(combined))
    IN  IF needs_claude(corrected, force_claude) /\ use_claude
        THEN LET claude_result == _ocr_with_claude(use_claude, response)
             IN  IF claude_result # <<>> /\ claude_result[1] # <<>>
                 THEN claude_result[1]
                 ELSE corrected
        ELSE corrected

\* the steps process_image runs after the OCR passes, in order
StepsOf(claude_called) ==
    <<"_reorganize_honda_format", "_apply_honda_corrections">>
    \o (IF claude_called THEN <<"_ocr_with_claude">> ELSE <<>>)

CombinedTexts == Pieces \cup {a \o b : a, b \in Pieces}

NoAnswer == [kind |-> "none", content |-> <<>>]

HttpFailures == {"http_error", "exception"}

\* what the model answers: a code, a code in lower case with a hyphen and a
\* line end, and a code that is too short
Contents ==
    {<<"N","D","0","9","E","1","B","2","1","5","7","9","7">>,
     <<"n","d","0","9","e","1","-","b","2","1","5","7","9","7","\n">>,
     <<"M","C","2","7","E","-","1","2","3">>,
     <<>>}

ProcessInit ==
    /\ p_text \in CombinedTexts
    /\ p_force \in BOOLEAN
    /\ p_use_claude \in BOOLEAN
    /\ p_path = "idle"
    /\ p_response = NoAnswer
    /\ p_code = <<>>
    /\ p_steps = <<>>

ClaudeCalled ==
    /\ p_use_claude
    /\ needs_claude(_apply_honda_corrections(_reorganize_honda_format(p_text)), p_force)

ProcessReturn(path, response) ==
    /\ p_path = "idle"
    /\ p_path' = path
    /\ p_response' = response
    /\ p_code' = process_image(p_text, p_force, p_use_claude, response)
    /\ p_steps' = StepsOf(ClaudeCalled)
    /\ UNCHANGED <<p_text, p_force, p_use_claude,
                   format_vars, forensic_vars, anomaly_vars, year_vars, ocr_vars, rate_vars,
                   font_vars, reference_vars, vision_vars>>

\* process_image without the fallback
ProcessLocal ==
    /\ ~ClaudeCalled
    /\ ProcessReturn("local", NoAnswer)

\* process_image when the call of the fallback fails
ProcessClaudeFailed ==
    /\ ClaudeCalled
    /\ \E k \in HttpFailures : ProcessReturn("claude_failed", [NoAnswer EXCEPT !.kind = k])

\* process_image when the fallback answers
ProcessClaudeAnswered ==
    /\ ClaudeCalled
    /\ \E content \in Contents :
          ProcessReturn("claude_ok", [kind |-> "ok", content |-> content])

ProcessNext ==
    \/ ProcessLocal
    \/ ProcessClaudeFailed
    \/ ProcessClaudeAnswered

(***************************************************************************)
(* FontAnalyzer (services/font_analyzer.py): the holes of a glyph and the  *)
(* check of its hole signature.  A hole is an inner contour of the glyph:  *)
(* the centre of its bounding box, relative to the glyph and in percent,   *)
(* and its area.  Aspect ratios are in percent.                            *)
(***************************************************************************)
MIN_GAP_AREA == 20
TOP_LIMIT == 33
MIDDLE_LIMIT == 66
LEFT_LIMIT == 40
MAX_ASPECT_1 == 40

RegionOf(rel_y) ==
    IF rel_y < TOP_LIMIT THEN "top" ELSE IF rel_y < MIDDLE_LIMIT THEN "middle" ELSE "bottom"

\* _detect_gaps: the inner contours of more than 20 px, each with its region
_detect_gaps(holes) ==
    LET Big(h) == h.area > MIN_GAP_AREA
        kept == SelectSeq(holes, Big)
    IN  [i \in 1..Len(kept) |->
            [rel_x |-> kept[i].rel_x, rel_y |-> kept[i].rel_y, area |-> kept[i].area,
             region |-> RegionOf(kept[i].rel_y)]]

\* HONDA_FONT_CHARACTERISTICS: aspect_ratio (min, max)
AspectRange(char) ==
    IF char = "1" THEN <<20, 35>>
    ELSE IF char \in {"2", "3", "5", "7"} THEN <<50, 65>>
    ELSE <<55, 70>>

CountRegion(gaps, region) == Cardinality({i \in 1..Len(gaps) : gaps[i].region = region})

CountLeft(gaps) == Cardinality({i \in 1..Len(gaps) : gaps[i].rel_x < LEFT_LIMIT})

\* _verify_gaps: notes is kept as the number of notes
_verify_gaps(char, gap_regions, aspect_ratio) ==
    LET result == [gaps_match |-> TRUE, expected_gap_count |-> 0,
                   detected_gap_count |-> 0, notes |-> 0]
    IN  IF char = "4"
        THEN LET middle == CountRegion(gap_regions, "middle")
             IN  IF middle = 0
                 THEN [result EXCEPT !.expected_gap_count = 1, !.gaps_match = FALSE,
                                     !.notes = 1]
                 ELSE [result EXCEPT !.expected_gap_count = 1,
                                     !.detected_gap_count = middle]
        ELSE IF char = "0"
        THEN IF Len(gap_regions) > 0
             THEN [result EXCEPT !.gaps_match = FALSE, !.notes = 1]
             ELSE result
        ELSE IF char = "3"
        THEN IF CountLeft(gap_regions) < 2 THEN [result EXCEPT !.notes = 1] ELSE result
        ELSE IF char = "9"
        THEN IF CountRegion(gap_regions, "top") > 0
             THEN [result EXCEPT !.notes = 1] ELSE result
        ELSE IF char = "1"
        THEN IF aspect_ratio > MAX_ASPECT_1
             THEN [result EXCEPT !.gaps_match = FALSE, !.notes = 1]
             ELSE result
        ELSE result

\* the result of analyze_character before any check
InitialCharResult ==
    [has_expected_gaps |-> TRUE, is_suspicious |-> FALSE, issues |-> 0,
     gap_analysis |-> <<>>]

\* analyze_character for a character with a template; low_similarity is the
\* outcome of the SSIM threshold test
analyze_character(holes, char, aspect_ratio, low_similarity) ==
    LET gap_result == _verify_gaps(char, _detect_gaps(holes), aspect_ratio)
        bad_aspect == aspect_ratio < AspectRange(char)[1] \/ aspect_ratio > AspectRange(char)[2]
    IN  [has_expected_gaps |-> gap_result.gaps_match,
         is_suspicious |-> ~gap_result.gaps_match \/ bad_aspect \/ low_similarity,
         issues |-> Count(~gap_result.gaps_match) + Count(bad_aspect) + Count(low_similarity),
         gap_analysis |-> <<gap_result>>]

MaxHoles == 2

Holes == [rel_x : {20, 60}, rel_y : {10, 33, 66}, area : {10, 50}]

HoleLists == UNION {[1..n -> Holes] : n \in 0..MaxHoles}

ClaimedChars == {"0", "1", "3", "4", "8", "9"}

AspectRatios == {30, 60}

FontInit ==
    /\ g_char \in ClaimedChars
    /\ g_holes \in HoleLists
    /\ g_aspect \in AspectRatios
    /\ g_done = FALSE
    /\ g_result = InitialCharResult

\* analyze_character when the character has no template
AnalyzeNoTemplate ==
    /\ ~g_done
    /\ g_done' = TRUE
    /\ g_result' = [InitialCharResult EXCEPT !.issues = 1]
    /\ UNCHANGED <<g_char, g_holes, g_aspect,
                   format_vars, forensic_vars, anomaly_vars, year_vars, ocr_vars, rate_vars, process_vars, reference_vars, vision_vars>>

\* analyze_character with a template
AnalyzeCharacter ==
    /\ ~g_done
    /\ g_done' = TRUE
    /\ \E low_similarity \in BOOLEAN :
          g_result' = analyze_character(g_holes, g_char, g_aspect, low_similarity)
    /\ UNCHANGED <<g_char, g_holes, g_aspect,
                   format_vars, forensic_vars, anomaly_vars, year_vars, ocr_vars, rate_vars, process_vars, reference_vars, vision_vars>>

FontNext ==
    \/ AnalyzeNoTemplate
    \/ AnalyzeCharacter

(***************************************************************************)
(* ForensicAIService.evaluate_analysis and promote_to_reference, with the  *)
(* two tables they use: analysis_history, by analysis id, and              *)
(* motors_original, as the sequence of the analysis ids its rows came      *)
(* from.  Optional[bool] values are "None", "True" and "False".            *)
(***************************************************************************)
MaxReferences == 3

AnalysisIds == {"a1", "a2"}

\* ids a request can carry: the stored ones and one that is stored nowhere
RequestIds == AnalysisIds \cup {"zz"}

\* a row of analysis_history as save_analysis leaves it
NewAnalysis ==
    [evaluated |-> FALSE, evaluation_correct |-> FALSE, is_fraud_confirmed |-> "None",
     promoted_to_reference |-> FALSE]

\* the checks of promote_to_reference without the one for confirmed fraud
CanPromote_ignores_fraud(analysis) ==
    /\ analysis.evaluated
    /\ analysis.evaluation_correct

\* the three checks of promote_to_reference on the row it read
CanPromote(analysis) ==
    /\ analysis.evaluated
    /\ analysis.evaluation_correct
    /\ analysis.is_fraud_confirmed # "True"

NoCall == [op |-> "none", id |-> "", ok |-> FALSE]

ReferenceInit ==
    /\ d_supabase \in BOOLEAN
    /\ d_history = [id \in AnalysisIds |-> NewAnalysis]
    /\ d_originals = <<>>
    /\ d_last = NoCall

\* evaluate_analysis returning (False, ...): no database or no such row
EvaluateRefused ==
    /\ \E analysis_id \in RequestIds :
          /\ ~d_supabase \/ analysis_id \notin AnalysisIds
          /\ d_last' = [op |-> "evaluate", id |-> analysis_id, ok |-> FALSE]
    /\ UNCHANGED <<d_supabase, d_history, d_originals,
                   format_vars, forensic_vars, anomaly_vars, year_vars, ocr_vars, rate_vars,
                   font_vars, process_vars, vision_vars>>

\* evaluate_analysis returning (False, "Erro: ...") on an exception of the client
EvaluateFails ==
    /\ d_supabase
    /\ \E analysis_id \in AnalysisIds :
          d_last' = [op |-> "evaluate", id |-> analysis_id, ok |-> FALSE]
    /\ UNCHANGED <<d_supabase, d_history, d_originals,
                   format_vars, forensic_vars, anomaly_vars, year_vars, ocr_vars, rate_vars,
                   font_vars, process_vars, vision_vars>>

\* evaluate_analysis returning (True, "Avaliacao salva")
EvaluateAnalysis ==
    /\ d_supabase
    /\ \E analysis_id \in AnalysisIds, correct \in BOOLEAN,
          is_fraud \in {"None", "True", "False"} :
          /\ d_history' = [d_history EXCEPT ![analysis_id] =
                              [@ EXCEPT !.evaluated = TRUE,
                                        !.evaluation_correct = correct,
                                        !.is_fraud_confirmed = is_fraud]]
          /\ d_last' = [op |-> "evaluate", id |-> analysis_id, ok |-> TRUE]
    /\ UNCHANGED <<d_supabase, d_originals,
                   format_vars, forensic_vars, anomaly_vars, year_vars, ocr_vars, rate_vars,
                   font_vars, process_vars, vision_vars>>

\* promote_to_reference returning (False, ...): no database, no such row, or
\* one of the three checks
PromoteRefused ==
    /\ \E analysis_id \in RequestIds :
          /\ \/ ~d_supabase
             \/ analysis_id \notin AnalysisIds
             \/ (analysis_id \in AnalysisIds /\ ~CanPromote(d_history[analysis_id]))
          /\ d_last' = [op |-> "promote", id |-> analysis_id, ok |-> FALSE]
    /\ UNCHANGED <<d_supabase, d_history, d_originals,
                   format_vars, forensic_vars, anomaly_vars, year_vars, ocr_vars, rate_vars,
                   font_vars, process_vars, vision_vars>>

\* promote_to_reference returning (False, "Erro: ...") when the select or the
\* insert raises
PromoteFails ==
    /\ d_supabase
    /\ \E analysis_id \in AnalysisIds :
          /\ CanPromote(d_history[analysis_id])
          /\ d_last' = [op |-> "promote", id |-> analysis_id, ok |-> FALSE]
    /\ UNCHANGED <<d_supabase, d_history, d_originals,
                   format_vars, forensic_vars, anomaly_vars, year_vars, ocr_vars, rate_vars,
                   font_vars, process_vars, vision_vars>>

\* the insert into motors_original, reached after the three checks
Inserted(analysis_id) ==
    /\ d_supabase
    /\ analysis_id \in AnalysisIds
    /\ CanPromote(d_history[analysis_id])
    /\ Len(d_originals) < MaxReferences
    /\ d_originals' = Append(d_originals, analysis_id)

\* promote_to_reference returning (True, "Promovido como referencia original")
PromoteToReference ==
    /\ \E analysis_id \in AnalysisIds :
          /\ Inserted(analysis_id)
          /\ d_history' = [d_history EXCEPT ![analysis_id].promoted_to_reference = TRUE]
          /\ d_last' = [op |-> "promote", id |-> analysis_id, ok |-> TRUE]
    /\ UNCHANGED <<d_supabase,
                   format_vars, forensic_vars, anomaly_vars, year_vars, ocr_vars, rate_vars,
                   font_vars, process_vars, vision_vars>>

\* promote_to_reference when the update of analysis_history raises after the insert
PromoteMarkFails ==
    /\ \E analysis_id \in AnalysisIds :
          /\ Inserted(analysis_id)
          /\ d_last' = [op |-> "promote", id |-> analysis_id, ok |-> FALSE]
    /\ UNCHANGED <<d_supabase, d_history,
                   format_vars, forensic_vars, anomaly_vars, year_vars, ocr_vars, rate_vars,
                   font_vars, process_vars, vision_vars>>

ReferenceNext ==
    \/ EvaluateRefused
    \/ EvaluateFails
    \/ EvaluateAnalysis
    \/ PromoteRefused
    \/ PromoteFails
    \/ PromoteToReference
    \/ PromoteMarkFails

(***************************************************************************)
(* AIVisionService (services/ai_vision.py): analyze_motor_image, then      *)
(* compare_readings on its result.  Confidences are in percent; `error`    *)
(* tells whether the result carries an error that is not None.             *)
(***************************************************************************)
HIGH_MATCH == 90
PARTIAL_MATCH == 70
CONFIRM_CONFIDENCE == 80
PREFER_CONFIDENCE == 85
PARTIAL_CONFIDENCE == 70

\* .upper().replace("-", "").replace(" ", "")
NormalizeReading(text) ==
    LET Kept(c) == c \notin {"-", " "}
    IN  SelectSeq(Upper(text), Kept)

\* the result of analyze_motor_image on each of its failure paths
FailedReading(enabled, ocr_result) ==
    [enabled |-> enabled, error |-> TRUE, numero_lido |-> ocr_result, confianca_leitura |-> 0]

\* "Conta caracteres iguais na mesma posicao"
Matches(a, b) == Cardinality({i \in 1..Min2(Len(a), Len(b)) : a[i] = b[i]})

\* match_score >= percent / 100
MatchAtLeast(ai_reading, ocr_reading, percent) ==
    /\ Len(ai_reading) > 0
    /\ Len(ocr_reading) > 0
    /\ 100 * Matches(ai_reading, ocr_reading)
          >= percent * Max2(Len(ai_reading), Len(ocr_reading))

compare_readings(ocr_result, ai_result) ==
    LET ai_reading == NormalizeReading(ai_result.numero_lido)
        ocr_reading == NormalizeReading(ocr_result)
        ai_confidence == ai_result.confianca_leitura
        Result(final_reading, status) ==
            [status |-> status, ocr_reading |-> ocr_reading, ai_reading |-> ai_reading,
             final_reading |-> final_reading,
             requer_revisao_manual |-> (status = "DIVERGENTE")]
    IN  IF MatchAtLeast(ai_reading, ocr_reading, HIGH_MATCH)
        THEN Result(IF ai_confidence > CONFIRM_CONFIDENCE THEN ai_reading ELSE ocr_reading,
                    "CONFIRMADO")
        ELSE IF ai_confidence > PREFER_CONFIDENCE
        THEN Result(ai_reading, "IA_PREFERIDO")
        ELSE IF MatchAtLeast(ai_reading, ocr_reading, PARTIAL_MATCH)
        THEN Result(IF ai_confidence > PARTIAL_CONFIDENCE THEN ai_reading ELSE ocr_reading,
                    "PARCIAL")
        ELSE Result(ocr_reading, "DIVERGENTE")

\* the OCR texts: none, a code, and the code as typed with a hyphen
OcrTexts ==
    {<<>>,
     <<"N","D","0","9","E","1","B","2","1","5">>,
     <<"n","d","0","9","e","1","-","b","2","1","5">>}

\* what the AI reads: the code, the code with 1, 3 and 4 other characters, a
\* longer code, nothing
AiReadings ==
    {<<"N","D","0","9","E","1","B","2","1","5">>,
     <<"N","D","0","9","E","1","B","2","1","6">>,
     <<"N","D","0","9","E","1","B","3","4","6">>,
     <<"M","C","0","9","E","1","B","2","7","6">>,
     <<"N","D","0","9","E","1"," ","B","2","1","5","7">>,
     <<>>}

Confidences == {0, 75, 83, 90}

AnalysisFailures == {"status", "timeout", "exception", "json"}

NoComparison ==
    [status |-> "", ocr_reading |-> <<>>, ai_reading |-> <<>>, final_reading |-> <<>>,
     requer_revisao_manual |-> FALSE]

NoReading == [enabled |-> FALSE, error |-> FALSE, numero_lido |-> <<>>, confianca_leitura |-> 0]

VisionInit ==
    /\ c_ocr \in OcrTexts
    /\ c_enabled \in BOOLEAN
    /\ c_stage = "start"
    /\ c_ai = NoReading
    /\ c_compared = NoComparison

\* analyze_motor_image without an API key
AnalyzeNotEnabled ==
    /\ c_stage = "start"
    /\ ~c_enabled
    /\ c_stage' = "disabled"
    /\ c_ai' = FailedReading(FALSE, c_ocr)
    /\ UNCHANGED <<c_ocr, c_enabled, c_compared,
                   format_vars, forensic_vars, anomaly_vars, year_vars, ocr_vars, rate_vars,
                   font_vars, process_vars, reference_vars>>

\* analyze_motor_image when the call fails or the answer is not JSON
AnalyzeImageFailed ==
    /\ c_stage = "start"
    /\ c_enabled
    /\ \E k \in AnalysisFailures : c_stage' = k
    /\ c_ai' = FailedReading(TRUE, c_ocr)
    /\ UNCHANGED <<c_ocr, c_enabled, c_compared,
                   format_vars, forensic_vars, anomaly_vars, year_vars, ocr_vars, rate_vars,
                   font_vars, process_vars, reference_vars>>

\* analyze_motor_image when the AI answers with JSON
AnalyzeImageAnswered ==
    /\ c_stage = "start"
    /\ c_enabled
    /\ c_stage' = "answered"
    /\ \E n \in AiReadings, c \in Confidences :
          c_ai' = [enabled |-> TRUE, error |-> FALSE, numero_lido |-> n,
                   confianca_leitura |-> c]
    /\ UNCHANGED <<c_ocr, c_enabled, c_compared,
                   format_vars, forensic_vars, anomaly_vars, year_vars, ocr_vars, rate_vars,
                   font_vars, process_vars, reference_vars>>

\* compare_readings on the result of analyze_motor_image and the same OCR text
CompareReadings ==
    /\ c_stage \notin {"start", "compared"}
    /\ c_stage' = "compared"
    /\ c_compared' = compare_readings(c_ocr, c_ai)
    /\ UNCHANGED <<c_ocr, c_enabled, c_ai,
                   format_vars, forensic_vars, anomaly_vars, year_vars, ocr_vars, rate_vars,
                   font_vars, process_vars, reference_vars>>

VisionNext ==
    \/ AnalyzeNotEnabled
    \/ AnalyzeImageFailed
    \/ AnalyzeImageAnswered
    \/ CompareReadings

(***************************************************************************)
(* Specifications.  Each component is checked on its own, the variables    *)
(* of the others at rest.                                                  *)
(***************************************************************************)
FormatIdle ==
    /\ engine_number = None
    /\ v_called = FALSE
    /\ vresult = EmptyResult(None)

ForensicIdle ==
    /\ f_enabled = FALSE
    /\ f_year = LASER_TRANSITION_YEAR
    /\ ai = EmptyPayload
    /\ f_path = "idle"
    /\ f_result = InitialResult(LASER_TRANSITION_YEAR)
    /\ f_steps = 0

AnomalyIdle ==
    /\ a_image = Undecodable
    /\ a_metrics = <<>>
    /\ a_expected = "LASER"
    /\ a_use_claude = FALSE
    /\ a_font_alerts = 0
    /\ a_path = "idle"
    /\ a_result = InitialAnomalyResult("LASER")
    /\ a_calls = <<>>

YearIdle ==
    /\ y_year = LASER_TRANSITION_YEAR
    /\ y_now = LASER_TRANSITION_YEAR
    /\ y_status = "posted"
    /\ y_types = NoTypes

OcrIdle ==
    /\ o_text = <<>>
    /\ o_mid = <<>>
    /\ o_out = <<>>
    /\ o_history = <<>>
    /\ o_stage = "read"

RateIdle ==
    /\ r_now = 0
    /\ r_requests = <<>>
    /\ r_admitted = <<>>
    /\ r_inflight = <<>>
    /\ r_last = NoRequest

FontIdle ==
    /\ g_char = ""
    /\ g_holes = <<>>
    /\ g_aspect = 0
    /\ g_done = FALSE
    /\ g_result = InitialCharResult

ProcessIdle ==
    /\ p_text = <<>>
    /\ p_force = FALSE
    /\ p_use_claude = FALSE
    /\ p_path = "idle"
    /\ p_response = NoAnswer
    /\ p_code = <<>>
    /\ p_steps = <<>>

ReferenceIdle ==
    /\ d_supabase = FALSE
    /\ d_history = <<>>
    /\ d_originals = <<>>
    /\ d_last = NoCall

VisionIdle ==
    /\ c_ocr = <<>>
    /\ c_enabled = FALSE
    /\ c_stage = "start"
    /\ c_ai = NoReading
    /\ c_compared = NoComparison

\* validate_engine_format on its own
FormatStart == FormatInit /\ ForensicIdle /\ AnomalyIdle /\ YearIdle /\ OcrIdle /\ RateIdle /\ FontIdle /\ ProcessIdle /\ ReferenceIdle /\ VisionIdle

SpecFormat ==
    /\ FormatStart
    /\ [][FormatNext]_vars

\* ForensicAIService.analyze on its own
ForensicStart == ForensicInit /\ FormatIdle /\ AnomalyIdle /\ YearIdle /\ OcrIdle /\ RateIdle /\ FontIdle /\ ProcessIdle /\ ReferenceIdle /\ VisionIdle

SpecForensic ==
    /\ ForensicStart
    /\ [][ForensicNext]_vars

\* AnomalyService.analyze on its own
AnomalyStart == AnomalyInit /\ FormatIdle /\ ForensicIdle /\ YearIdle /\ OcrIdle /\ RateIdle /\ FontIdle /\ ProcessIdle /\ ReferenceIdle /\ VisionIdle

SpecAnomaly ==
    /\ AnomalyStart
    /\ [][AnomalyNext]_vars

\* the year on its own
YearStart == YearInit /\ FormatIdle /\ ForensicIdle /\ AnomalyIdle /\ OcrIdle /\ RateIdle /\ FontIdle /\ ProcessIdle /\ ReferenceIdle /\ VisionIdle

SpecYear ==
    /\ YearStart
    /\ [][YearNext]_vars

\* the OCR normalizer on its own
OcrStart == OcrInit /\ FormatIdle /\ ForensicIdle /\ AnomalyIdle /\ YearIdle /\ RateIdle /\ FontIdle /\ ProcessIdle /\ ReferenceIdle /\ VisionIdle

SpecOcr ==
    /\ OcrStart
    /\ [][OcrNext]_vars

\* the rate limiter on its own
RateStart ==
    RateInit /\ FormatIdle /\ ForensicIdle /\ AnomalyIdle /\ YearIdle /\ OcrIdle /\ FontIdle
        /\ ProcessIdle /\ ReferenceIdle /\ VisionIdle

SpecRate ==
    /\ RateStart
    /\ [][RateNext]_vars

\* analyze_character on its own
FontStart ==
    FontInit /\ FormatIdle /\ ForensicIdle /\ AnomalyIdle /\ YearIdle /\ OcrIdle /\ RateIdle
        /\ ProcessIdle /\ ReferenceIdle /\ VisionIdle

SpecFont ==
    /\ FontStart
    /\ [][FontNext]_vars

\* process_image on its own
ProcessStart ==
    ProcessInit /\ FormatIdle /\ ForensicIdle /\ AnomalyIdle /\ YearIdle /\ OcrIdle
        /\ RateIdle /\ FontIdle /\ ReferenceIdle /\ VisionIdle

SpecProcess ==
    /\ ProcessStart
    /\ [][ProcessNext]_vars

\* the evaluation and promotion of analyses on their own
ReferenceStart ==
    ReferenceInit /\ FormatIdle /\ ForensicIdle /\ AnomalyIdle /\ YearIdle /\ OcrIdle
        /\ RateIdle /\ FontIdle /\ ProcessIdle /\ VisionIdle

SpecReference ==
    /\ ReferenceStart
    /\ [][ReferenceNext]_vars

\* analyze_motor_image and compare_readings on their own
VisionStart ==
    VisionInit /\ FormatIdle /\ ForensicIdle /\ AnomalyIdle /\ YearIdle /\ OcrIdle
        /\ RateIdle /\ FontIdle /\ ProcessIdle /\ ReferenceIdle

SpecVision ==
    /\ VisionStart
    /\ [][VisionNext]_vars

(***************************************************************************)
(* Properties of validate_engine_format                                    *)
(***************************************************************************)
\* the input upper-cased, with its spaces and hyphens removed
CleanedForm(text) == SelectSeq(Upper(text), LAMBDA c : c \notin {" ", "-"})

CatalogPrefixesOf(s) == {p \in DOMAIN ENGINE_PREFIXES : StartsWith(s, p)}

MatchesCatalog(text) ==
    /\ text # None
    /\ Len(CleanedForm(text)) \in MIN_LEN..MAX_LEN
    /\ CatalogPrefixesOf(CleanedForm(text)) # {}

\* C1: when the cleaned input has 8..16 characters and starts with a catalog
\* prefix, the prefix returned is the longest catalog entry that is a prefix of
\* it; a longer entry is never shadowed by a shorter one (MD09E / MD09E1).
C1_LongestPrefixWins ==
    (v_called /\ MatchesCatalog(engine_number)) =>
        LET P == CatalogPrefixesOf(CleanedForm(engine_number))
        IN  /\ vresult.prefix \in P
            /\ \A q \in P : Len(q) <= Len(vresult.prefix)

C1_Witness ==
    /\ v_called
    /\ MatchesCatalog(engine_number)
    /\ Cardinality(CatalogPrefixesOf(CleanedForm(engine_number))) = 3
    /\ vresult.prefix = <<"N","C","4","9","E","1","F">>

\* C9: on a catalog match the split loses nothing: prefix + serial is the
\* cleaned input, with or without a hyphen and wherever it stands; and a
\* remainder of 5..8 digits and only A-Z/0-9 gives valid=true, confidence 0.95.
C9_LosslessSplit ==
    (v_called /\ MatchesCatalog(engine_number)) =>
        /\ vresult.prefix \o vresult.serial = CleanedForm(engine_number)
        /\ ( /\ Len(DigitsOf(vresult.serial)) \in MIN_SERIAL_DIGITS..MAX_SERIAL_DIGITS
             /\ \A i \in 1..Len(vresult.serial) : vresult.serial[i] \in Letters \cup Digits )
           => (vresult.valid /\ vresult.confidence = CONF_CATALOG)

C9_Witness ==
    /\ v_called
    /\ MatchesCatalog(engine_number)
    /\ \E i \in 1..Len(engine_number) : i > 1 /\ engine_number[i] = "-"
    /\ vresult.serial = <<"B","2","1","5","7","9","7">>
    /\ vresult.valid
    /\ vresult.confidence = CONF_CATALOG

ZZ00X_999999 == <<"Z","Z","0","0","X","-","9","9","9","9","9","9">>

\* C10 as stated: "ZZ00X-999999" matches nothing and the result is invalid
\* with confidence 0.0 and at least one issue.
C10_Original ==
    (v_called /\ engine_number = ZZ00X_999999) =>
        /\ vresult.valid = FALSE
        /\ vresult.confidence = 0
        /\ Len(vresult.issues) >= 1

\* C10 amended: "ZZ00X-999999" matches no catalog prefix, but with its hyphen
\* removed it matches the primary expression, whose greedy prefix group takes
\* the first 9: prefix ZZ00X9, serial 99999, valid=true, confidence 0.70 and
\* exactly one issue (prefix not catalogued).
C10_RegexMatch ==
    (v_called /\ engine_number = ZZ00X_999999) =>
        /\ CatalogPrefixesOf(CleanedForm(engine_number)) = {}
        /\ vresult.prefix = <<"Z","Z","0","0","X","9">>
        /\ vresult.serial = <<"9","9","9","9","9">>
        /\ vresult.model_info = None
        /\ vresult.valid
        /\ vresult.confidence = CONF_REGEX
        /\ vresult.issues = <<"prefix_not_catalogued">>

C10_Witness == v_called /\ engine_number = ZZ00X_999999

SerialPresent == vresult.serial # None /\ Len(vresult.serial) > 0

\* C11: in every result the serial, if present, holds only A-Z and 0-9.
C11_SerialAlphabet ==
    (v_called /\ vresult.serial # None) =>
        \A i \in 1..Len(vresult.serial) : vresult.serial[i] \in Letters \cup Digits

\* the penalties as the serial of the result earns them
TooFewDigits == Len(DigitsOf(vresult.serial)) < MIN_SERIAL_DIGITS
TooManyDigits == Len(DigitsOf(vresult.serial)) > MAX_SERIAL_DIGITS
BadChars == \E i \in 1..Len(vresult.serial) : vresult.serial[i] \notin Letters \cup Digits

BaseConfidence ==
    IF CatalogPrefixesOf(CleanedForm(engine_number)) # {} THEN CONF_CATALOG ELSE CONF_REGEX

\* C12: with a serial extracted, the confidence is the base (0.95 catalog,
\* 0.70 regex) times 0.5 for fewer than 5 digits, times 0.8 for more than 8,
\* times 0.7 for a character outside A-Z/0-9; only the first penalty clears
\* valid; each penalty adds one issue; so a valid result has a serial of at
\* least 5 digits and a confidence above 0.
C12_SerialPenalties ==
    /\ (v_called /\ SerialPresent) =>
        /\ vresult.confidence * 1000 =
                BaseConfidence * (IF TooFewDigits THEN 5 ELSE 10)
                               * (IF TooManyDigits THEN 8 ELSE 10)
                               * (IF BadChars THEN 7 ELSE 10)
        /\ vresult.valid = ~TooFewDigits
        /\ Len(vresult.issues) =
                (IF BaseConfidence = CONF_REGEX THEN 1 ELSE 0)
                + Count(TooFewDigits) + Count(TooManyDigits) + Count(BadChars)
    /\ (v_called /\ vresult.valid) =>
        /\ SerialPresent
        /\ Len(DigitsOf(vresult.serial)) >= MIN_SERIAL_DIGITS
        /\ vresult.confidence > 0

C12_Witness ==
    /\ v_called /\ SerialPresent
    /\ TooFewDigits /\ BadChars
    /\ ~vresult.valid
    /\ vresult.confidence = 3325
    /\ Len(vresult.issues) = 2

Rejected(text) ==
    \/ text = None
    \/ text = <<>>
    \/ Len(CleanedForm(text)) < MIN_LEN
    \/ Len(CleanedForm(text)) > MAX_LEN

\* C13: an input that is empty, not a string, or of cleaned length below 8 or
\* above 16 is rejected without a match being tried: valid=false, confidence
\* 0.0, no prefix, serial or model_info, exactly one issue.
C13_Rejects ==
    (v_called /\ Rejected(engine_number)) =>
        /\ vresult.valid = FALSE
        /\ vresult.confidence = 0
        /\ vresult.prefix = None
        /\ vresult.serial = None
        /\ vresult.model_info = None
        /\ Len(vresult.issues) = 1
        /\ vresult.issues[1] \in {"empty_or_invalid", "too_short", "too_long"}

C13_Witness ==
    /\ v_called
    /\ engine_number # None
    /\ Len(engine_number) = MAX_LEN + 2
    /\ Len(CleanedForm(engine_number)) = MAX_LEN + 1
    /\ vresult.issues = <<"too_long">>

(***************************************************************************)
(* Properties of ForensicAIService                                         *)
(***************************************************************************)
\* get_verdict's answers, least severe first
Verdicts ==
    <<"REGULAR", "VERIFICAR", "ATENCAO", "SUSPEITO", "ALTA SUSPEITA", "FRAUDE CONFIRMADA">>

Severity(v) == CHOOSE i \in 1..Len(Verdicts) : Verdicts[i] = v

TOP_VERDICT == Verdicts[Len(Verdicts)]

HARD_FLOOR == 85

\* severe misalignment reported for an answer that so far had irregular alignment
SevereInsteadOfIrregular ==
    /\ ~ai.checklist_alinhamento.numeros_bem_alinhados
    /\ ~ai.checklist_alinhamento.indica_puncao_manual
    /\ ReportSevereMisalignment

\* C2: the score never decreases when the answer reports more negative
\* evidence: a larger count of clearly wrong characters, one more
\* character-problem flag, or severe instead of irregular alignment.
C2_Monotone ==
    [][(ReportWrongChars \/ FlagCharProblem \/ SevereInsteadOfIrregular)
            => f_result'.risk_score >= f_result.risk_score]_vars

HardEvidence(p) ==
    \/ p.checklist_fonte.quantos_caracteres_claramente_errados >= 1
    \/ Len(p.checklist_fonte.caracteres_com_problema_claro) >= 1
    \/ p.checklist_superficie.numeros_fantasma_visiveis
    \/ p.analise_gravacao.mistura_tipos
    \/ ~p.checklist_fonte.consistencia_linha1_linha2
    \/ ~p.analise_gravacao.estilo_fonte_consistente
    \/ p.checklist_alinhamento.desalinhamento_severo

\* C3: one piece of hard evidence (a clearly wrong character, ghost numbers,
\* mixed engraving, line inconsistency, severe misalignment) forces the score
\* to 85 or more and the top verdict, whatever the classification and the
\* certainty the answer states.
C3_HardEvidenceFloor ==
    (f_path = "ok" /\ HardEvidence(ai)) =>
        /\ f_result.risk_score >= HARD_FLOOR
        /\ get_verdict(f_result.risk_score) = TOP_VERDICT

C3_Witness ==
    /\ f_path = "ok"
    /\ ai.veredicto.classificacao = "ORIGINAL"
    /\ ai.veredicto.certeza = 150
    /\ ai.checklist_superficie.numeros_fantasma_visiveis
    /\ f_result.risk_score >= HARD_FLOOR

\* C4: on every path of analyze the score is an integer in 0..100, and
\* get_verdict is defined on all of 0..100 with a severity that never
\* decreases as the score grows (so its bands are contiguous).
C4_ScoreInRange ==
    /\ f_result.risk_score \in 0..100
    /\ \A s \in 0..100 : \E i \in 1..Len(Verdicts) : get_verdict(s) = Verdicts[i]
    /\ \A s \in 0..99 : Severity(get_verdict(s)) <= Severity(get_verdict(s + 1))

C4_Witness ==
    /\ f_path = "ok"
    /\ ai.veredicto.classificacao = "ADULTERADO"
    /\ ai.veredicto.certeza = 150
    /\ ~ai.checklist_alinhamento.numeros_bem_alinhados
    /\ f_result.risk_score = 100

\* C5: when analyze obtained no usable opinion (disabled, AI error, exception,
\* answer without JSON) the verdict of its score is not REGULAR.
C5_NeverRegular ==
    f_path \in {"disabled", "ai_error", "exception", "unparseable"}
        => get_verdict(f_result.risk_score) # "REGULAR"

\* the answer reports nothing but the engraving type of the two lines, whether
\* it fits the year, and a verdict
NoOtherEvidence(p) ==
    /\ p.checklist_fonte = EmptyPayload.checklist_fonte
    /\ p.checklist_superficie = EmptyPayload.checklist_superficie
    /\ p.checklist_alinhamento = EmptyPayload.checklist_alinhamento
    /\ p.analise_gravacao.estilo_fonte_consistente
    /\ ~p.analise_gravacao.mistura_tipos

\* C8: a stamped engraving (ESTAMPAGEM on both lines) for a year whose expected
\* type is LASER gives, with no other negative evidence, a score of 85 or more
\* and the top verdict.
C8_TypeMismatchIsHighRisk ==
    ( /\ f_path = "ok"
      /\ f_year = 2020
      /\ f_result.expected_type = "LASER"
      /\ f_result.detected_type = "ESTAMPAGEM"
      /\ NoOtherEvidence(ai) ) =>
        /\ f_result.risk_score >= HARD_FLOOR
        /\ get_verdict(f_result.risk_score) = TOP_VERDICT

\* C20: an ADULTERADO verdict with no specific evidence in the answer (no
\* wrong character, no character flag, no ghost numbers, no mixed types, no
\* line inconsistency, no misalignment, no sanding marks) gives a score of
\* at most 35, whatever the stated certainty.
C20_UncorroboratedCap ==
    ( /\ f_path = "ok"
      /\ ai.veredicto.classificacao = "ADULTERADO"
      /\ NoOtherEvidence(ai) ) =>
        f_result.risk_score <= 35

(***************************************************************************)
(* Properties of AnomalyService                                            *)
(***************************************************************************)
\* C6: for an image that cannot be decoded, or an empty list of glyph
\* metrics, analyze never returns the status OK.
C6_NeverOkOnBadInput ==
    (a_path # "idle" /\ (~a_image.decodable \/ Len(a_metrics) = 0))
        => a_result.status # "OK"

\* what analyze returns for the same arguments with no API key configured
ComputationalResult ==
    AnomalyAnalyze(a_image, a_metrics, a_expected, a_font_alerts, FALSE, NoResponse)

\* C7: with no API key, or when the call of the AI fails (status other than
\* 200, exception, timeout), analyze does not end in its error status and
\* returns the detected_type, detection_confidence, type_match, outliers and
\* status of the computational analysis of the same arguments.
C7_AINeverRequired ==
    (a_path = "ai_failed" \/ (a_path = "computational" /\ ~a_use_claude)) =>
        LET c == ComputationalResult
        IN  /\ a_result.status # "ERRO"
            /\ a_result.detected_type = c.detected_type
            /\ a_result.detection_confidence = c.detection_confidence
            /\ a_result.type_match = c.type_match
            /\ a_result.outliers = c.outliers
            /\ a_result.status = c.status

C7_Witness ==
    /\ a_path = "ai_failed"
    /\ Len(a_result.ai_analysis) = 1
    /\ ~a_result.ai_analysis[1].success
    /\ a_expected = "LASER"
    /\ a_result.detected_type = "ESTAMPAGEM"
    /\ a_result.detection_confidence = MAX_CV_CONFIDENCE
    /\ Len(a_result.outliers) = 2
    /\ a_result.status = "SUSPEITO"

\* the sums of five contributions, one of each feature
ContributionSums ==
    {e + t + v + g + c : e \in {0, 15, 25}, t \in {0, 15, 25}, v \in {0, 10, 20},
                         g \in {0, 8, 15}, c \in {0, 8, 15}}

\* C15: for a decodable image laser_score is a sum of five contributions
\* (0/15/25, 0/15/25, 0/10/20, 0/8/15, 0/8/15), so within 0..100; the
\* decision is LASER iff the score is 65 or more, with confidence
\* min(score, 95)%, ESTAMPAGEM iff it is 35 or less, with confidence
\* min(100 - score, 95)%, and DESCONHECIDO with 50% otherwise; a LASER or
\* ESTAMPAGEM decision has a confidence within 65%..95%.  The result of
\* analyze carries that decision when the AI is not called.
C15_ClassifierDecision ==
    a_image.decodable =>
        LET s == laser_score(a_image)
            cv == _detect_type_opencv(a_image)
        IN  /\ s \in ContributionSums
            /\ s \in 0..100
            /\ (cv.type = "LASER") <=> (s >= 65)
            /\ (cv.type = "ESTAMPAGEM") <=> (s <= 35)
            /\ cv.type \in {"LASER", "ESTAMPAGEM", "DESCONHECIDO"}
            /\ cv.type = "LASER" => cv.confidence = Min2(s, 95)
            /\ cv.type = "ESTAMPAGEM" => cv.confidence = Min2(100 - s, 95)
            /\ cv.type = "DESCONHECIDO" => cv.confidence = 50
            /\ cv.type # "DESCONHECIDO" => cv.confidence \in 65..95
            /\ a_path = "computational" =>
                    /\ a_result.detected_type = cv.type
                    /\ a_result.detection_confidence = cv.confidence

C15_Witness ==
    /\ a_path = "computational"
    /\ a_image.decodable
    /\ laser_score(a_image) = 100
    /\ a_result.detected_type = "LASER"
    /\ a_result.detection_confidence = 95

AllPositive(ms) == \A i \in 1..Len(ms) : ms[i].center_y > 0 /\ ms[i].height > 0

AllIdentical(ms) ==
    \A i, j \in 1..Len(ms) : ms[i].center_y = ms[j].center_y /\ ms[i].height = ms[j].height

\* glyph j alone is off the common center_y, by more than 0.15 x the (common) height
OnlyShifted(ms, j) ==
    /\ \A i, k \in 1..Len(ms) : ms[i].height = ms[k].height
    /\ \A i, k \in (1..Len(ms)) \ {j} : ms[i].center_y = ms[k].center_y
    /\ \E i \in (1..Len(ms)) \ {j} :
            100 * Abs(ms[j].center_y - ms[i].center_y) > 15 * ms[j].height

\* C16: _analyze_alignment returns nothing for fewer than 3 metrics and for 3
\* or more identical metrics (positive height and center_y); when exactly one
\* glyph is shifted beyond the tolerance it returns one finding, for that
\* glyph, of severity MEDIO and position index + 1.
C16_AlignmentFindings ==
    LET ms == a_metrics
        found == _analyze_alignment(ms)
    IN  /\ Len(ms) < 3 => found = <<>>
        /\ (Len(ms) >= 3 /\ AllPositive(ms) /\ AllIdentical(ms)) => found = <<>>
        /\ \A j \in 1..Len(ms) :
              (Len(ms) >= 3 /\ AllPositive(ms) /\ OnlyShifted(ms, j)) =>
                  found = <<[position |-> ms[j].index + 1, severity |-> "MEDIO"]>>

C16_Witness ==
    /\ a_path = "computational"
    /\ Len(a_metrics) = 3
    /\ AllPositive(a_metrics)
    /\ OnlyShifted(a_metrics, 2)
    /\ a_result.type_match
    /\ a_result.outliers = <<[position |-> 2, severity |-> "MEDIO"]>>
    /\ ~a_result.alignment_ok

\* the findings of severity CRITICO in the result
CriticalFindings ==
    {i \in 1..Len(a_result.outliers) : a_result.outliers[i].severity = "CRITICO"}

\* the final detected type is definite and is not the expected one
FinalMismatch ==
    /\ a_result.detected_type # "DESCONHECIDO"
    /\ a_result.detected_type # a_expected

CvMismatch ==
    LET cv == _detect_type_opencv(a_image)
    IN  cv.type # "DESCONHECIDO" /\ cv.type # a_expected

\* C23: analyze calls the AI at most once, after the OpenCV classifier, and
\* only with an API key and an OpenCV confidence below 70% or a definite
\* OpenCV type other than the expected one; it does not call it when the
\* confidence is 70% or more and the OpenCV type is the expected one.
C23_AIConsultation ==
    LET cv == _detect_type_opencv(a_image)
        ai_at == {i \in 1..Len(a_calls) : a_calls[i] = "_analyze_with_claude"}
    IN  /\ a_path = "idle" => a_calls = <<>>
        /\ a_path # "idle" => (Len(a_calls) >= 1 /\ a_calls[1] = "_detect_type_opencv")
        /\ Cardinality(ai_at) <= 1
        /\ \A i \in ai_at : i > 1
        /\ ai_at # {} =>
              /\ a_use_claude
              /\ (cv.confidence < 70 \/ CvMismatch)
        /\ (cv.confidence >= 70 /\ cv.type = a_expected) => ai_at = {}
        /\ (a_path \in {"ai_ok", "ai_failed"}) <=> (ai_at # {})

C23_Witness ==
    /\ a_path = "ai_ok"
    /\ a_calls = <<"_detect_type_opencv", "_analyze_with_claude">>
    /\ _detect_type_opencv(a_image).confidence >= 70
    /\ CvMismatch

\* C26: when OpenCV detects a definite type other than the expected one and
\* the AI answers without a recognisable type, the result still has
\* type_match false, a CRITICO finding and the status SUSPEITO.
C26_MismatchKept ==
    ( /\ a_path = "ai_ok"
      /\ CvMismatch
      /\ a_result.ai_analysis[1].success
      /\ a_result.ai_analysis[1].detected_type = "DESCONHECIDO" ) =>
        /\ ~a_result.type_match
        /\ CriticalFindings # {}
        /\ a_result.status = "SUSPEITO"

C14_ExpectedTypeAgrees ==
    y_status = "typed" =>
        LET expected == IF y_year >= LASER_TRANSITION_YEAR THEN "LASER" ELSE "ESTAMPAGEM"
        IN  /\ y_types.honda = expected
            /\ y_types.anomaly = expected
            /\ y_types.forensic = expected

(***************************************************************************)
(* Claims about the OCR code normalizer                                    *)
(***************************************************************************)
\* C17: the normalizer (reorganize, then correct) is idempotent: the text
\* after a second pass over its own output equals the text after the first.
C17_Idempotent ==
    Len(o_history) >= 2 => o_history[2] = o_history[1]

\* _apply_honda_corrections has just run on a text long enough to be corrected
Corrected == o_stage = "corrected" /\ Len(o_mid) >= MIN_CORRECT_LEN

C19_SerialDigits ==
    (o_stage = "corrected" /\ Len(o_mid) >= SERIAL_FIX_FROM) =>
        \A i \in SERIAL_FIX_FROM..Len(o_out) : o_out[i] \notin {"O", "I"}

(***************************************************************************)
(* Claims about RateLimitMiddleware                                        *)
(***************************************************************************)
\* the requests among `times` with a timestamp in (t - 60, t]
InWindow(times, t) ==
    Cardinality({i \in 1..Len(times) : t - WINDOW < times[i] /\ times[i] <= t})

\* at no instant has an IP more admitted requests in the last minute than the limit
WithinLimit ==
    \A ip \in ClientIPs : \A t \in 0..MaxNow :
        InWindow(r_admitted[ip], t) <= requests_per_minute

\* a step of dispatch that answers 429
Rejecting == r_now' = r_now /\ r_last'.status = 429

\* a step of dispatch that gives the request to call_next
Forwarding == r_admitted' # r_admitted

DispatchStep ==
    /\ Rejecting =>
          /\ r_admitted' = r_admitted
          /\ r_inflight' = r_inflight
          /\ Len(r_requests'[r_last'.ip]) <= Len(r_requests[r_last'.ip])
          /\ InWindow(r_admitted[r_last'.ip], r_now) >= requests_per_minute
    /\ Forwarding =>
          /\ r_last'.status = 0
          /\ r_admitted'[r_last'.ip] = Append(r_admitted[r_last'.ip], r_now)
          /\ InWindow(r_admitted[r_last'.ip], r_now) < requests_per_minute
    /\ \A ip \in ClientIPs \ {r_last'.ip} :
          /\ r_requests'[ip] = r_requests[ip]
          /\ r_admitted'[ip] = r_admitted[ip]

\* C21: whatever the order in which requests arrive, wait in call_next and
\* return, no IP has at any instant t more than requests_per_minute admitted
\* requests with a timestamp in (t - 60, t]; a request answered 429 is not
\* recorded; a request of one IP changes nothing of another IP, and whether
\* it is admitted follows from the admitted requests of its own IP alone.
C21_RateLimit ==
    /\ []WithinLimit
    /\ [][DispatchStep]_vars

C21_Witness ==
    /\ r_last = [ip |-> "unknown", status |-> 429]
    /\ InWindow(r_admitted["unknown"], r_now) = requests_per_minute
    /\ r_inflight["unknown"] >= 1
    /\ Len(r_admitted["10.0.0.1"]) >= 1
    /\ r_now >= WINDOW

(***************************************************************************)
(* Claims about FontAnalyzer                                               *)
(***************************************************************************)
\* C24: when analyze_character has checked a glyph against its template, a
\* '4' with no hole in the middle third, a '0' with a hole and a '3' with
\* fewer than 2 holes on its left side each have gaps_match false, which
\* marks the glyph suspicious; every detected hole is in exactly one of the
\* regions top, middle and bottom.
C24_HoleSignatures ==
    (g_done /\ Len(g_result.gap_analysis) = 1) =>
        LET gaps == _detect_gaps(g_holes)
            verified == g_result.gap_analysis[1]
        IN  /\ (g_char = "4" /\ CountRegion(gaps, "middle") = 0) => ~verified.gaps_match
            /\ (g_char = "0" /\ Len(gaps) > 0) => ~verified.gaps_match
            /\ (g_char = "3" /\ CountLeft(gaps) < 2) => ~verified.gaps_match
            /\ ~verified.gaps_match => g_result.is_suspicious
            /\ \A i \in 1..Len(gaps) :
                  Cardinality({r \in {"top", "middle", "bottom"} : gaps[i].region = r}) = 1

(***************************************************************************)
(* Claims about OCREngine.process_image                                    *)
(***************************************************************************)
\* the text after the local steps
LocalText == _apply_honda_corrections(_reorganize_honda_format(p_text))

\* C25: process_image runs the fallback at most once, after the reorganize
\* and correct steps, and only with a key and force_claude or a corrected text
\* that fails _is_valid_format; the returned code differs from the corrected
\* text only when the fallback answered with 10 or more characters of
\* [A-Z0-9], which are then the code; when the fallback did not run, failed or
\* answered with fewer, the code is the corrected text.
C25_ClaudeFallback ==
    p_path # "idle" =>
        LET at == {i \in 1..Len(p_steps) : p_steps[i] = "_ocr_with_claude"}
            answer == Alphanumerics(p_response.content)
            replaced == p_response.kind = "ok" /\ Len(answer) >= 10
        IN  /\ SubSeq(p_steps, 1, 2) = <<"_reorganize_honda_format", "_apply_honda_corrections">>
            /\ Cardinality(at) <= 1
            /\ \A i \in at : i = 3
            /\ at # {} => (p_use_claude /\ (p_force \/ ~_is_valid_format(LocalText)))
            /\ at = {} => p_response = NoAnswer
            /\ replaced =>
                  /\ p_code = answer
                  /\ \A i \in 1..Len(p_code) : p_code[i] \in Letters \cup Digits
            /\ ~replaced => p_code = LocalText

C25_Witness ==
    /\ p_path = "claude_ok"
    /\ ~p_force
    /\ ~_is_valid_format(LocalText)
    /\ Len(p_response.content) = 15
    /\ p_code = <<"N","D","0","9","E","1","B","2","1","5","7","9","7">>
    /\ p_code # LocalText

(***************************************************************************)
(* Claims about promote_to_reference                                       *)
(***************************************************************************)
\* the analysis exists, is evaluated as correct and is not a confirmed fraud
Eligible(id) ==
    /\ d_supabase
    /\ id \in AnalysisIds
    /\ d_history[id].evaluated
    /\ d_history[id].evaluation_correct
    /\ d_history[id].is_fraud_confirmed # "True"

PromoteStep ==
    d_last'.op = "promote" =>
        /\ d_originals' # d_originals =>
              /\ Eligible(d_last'.id)
              /\ d_originals' = Append(d_originals, d_last'.id)
        /\ ~Eligible(d_last'.id) =>
              /\ ~d_last'.ok
              /\ d_originals' = d_originals
              /\ d_history' = d_history

\* C27: a call of promote_to_reference adds a row to motors_original only for
\* an analysis that exists, is evaluated, evaluated as correct and not a
\* confirmed fraud; for any other analysis (or with no database) it returns
\* False and changes neither motors_original nor analysis_history.
C27_PromoteOnlyEligible ==
    [][PromoteStep]_vars

C27_Witness ==
    /\ d_last = [op |-> "promote", id |-> "a2", ok |-> FALSE]
    /\ d_history["a2"].evaluated
    /\ d_history["a2"].evaluation_correct
    /\ d_history["a2"].is_fraud_confirmed = "True"
    /\ d_originals = <<"a1">>
    /\ d_history["a1"].promoted_to_reference

\* C28: motors_original never holds more than one row that came from the same
\* analysis.
C28_PromotedOnce ==
    \A id \in AnalysisIds :
        Cardinality({i \in 1..Len(d_originals) : d_originals[i] = id}) <= 1

(***************************************************************************)
(* Claims about AIVisionService                                            *)
(***************************************************************************)
\* C30: when compare_readings has run on the result of analyze_motor_image
\* and the same OCR text, a result that carries an error does not give the
\* status CONFIRMADO; the final reading is one of the two normalized
\* readings, and the OCR reading when the status is DIVERGENTE.
C30_ConfirmedNeedsReading ==
    c_stage = "compared" =>
        /\ c_ai.error => c_compared.status # "CONFIRMADO"
        /\ c_compared.final_reading \in {c_compared.ocr_reading, c_compared.ai_reading}
        /\ c_compared.status = "DIVERGENTE" =>
              c_compared.final_reading = c_compared.ocr_reading

====
